---- MODULE Spec2Model ----
(***************************************************************************)
(* beacon-chat: the messaging context (MessagingProvider), the relay hook  *)
(* (useMessageRelay), the IndexedDB storage module and the relay edge      *)
(* function, modelled as one state machine.                                *)
(*                                                                         *)
(*   Spec       the client session: context + relay hook + local stores,   *)
(*              talking to the relay table                                 *)
(*   FairSpec   Spec with the fairness of the asynchronous continuations   *)
(*   ScanSpec   connectivity and peer discovery, without messages          *)
(*   SessionSpec one session (no restart) with the hook's fetch/acknowledge *)
(*   FairSessionSpec  SessionSpec with the same fairness                   *)
(*   CallerSpec the context's functions called by any consumer, with local  *)
(*              crypto and storage failures                                *)
(*   InboundSpec / InboundFairSpec  peers post envelopes for this device   *)
(*              and the hook fetches them                                  *)
(*   StoreSpec  the storage module's message/queue operations on their own *)
(*   CryptoSpec the encryption module's encryptMessage/decryptMessage on    *)
(*              their own, with modified ciphertexts, ivs and keys         *)
(*   RelaySpec  the relay edge function on its own, with a clock           *)
(*   LogSpec    an online session with a running clock: the message log   *)
(*   RealtimeSpec  the hook's realtime subscription, with the hook mounted *)
(*              and unmounted and the identity replaced                    *)
(*   DrainSpec  one contact, sends and drains, and a consumer that calls   *)
(*              processQueue                                               *)
(*   ExchangeSpec  contact exchange by QR code (QRCodeDisplay, scanner)    *)
(***************************************************************************)
EXTENDS Integers, Sequences, FiniteSets, TLC

\* ---------------------------------------------------------------- bounds
\* size of the pool crypto.randomUUID() draws message ids from
MaxUuid == 2
\* contacts held in the in-memory contact list
MaxContacts == 2
\* rows of the relay table pending_messages
MaxEnvelopes == 2
\* selectContact calls (and scan timers) suspended at the same time
MaxInflight == 1
\* last instant of the relay clock (days)
MaxNow == 9
\* longest plaintext handed to encryptMessage on its own (UTF-16 code units)
MaxLen == 2

\* ------------------------------------------------------- program constants
\* expires_at = created_at + interval '7 days'; the fetch filter adds 7 days
ExpiryDays == 7
\* AES-GCM with no tagLength given: a tag of 128 bits
TagBytes == 16

Null == [kind |-> "null"]
EmptyString == [kind |-> "empty"]

\* ------------------------------------------------------------ key material
\* A key pair is named by an index; its exported public keys are strings,
\* kept as their char codes ("Aa", "BB", "C": the first two collide under
\* generateIdentityId).
KeyPairs == {1, 2, 3}
LocalKeyPairs == {3}
ContactKeyPairs == {1, 2}
DisplayNames == {"Bob"}
\* message texts are JavaScript strings: sequences of UTF-16 code units ("hi")
Hi == <<104, 105>>
Contents == {Hi}

KeyChars(k) == CASE k = 1 -> <<65, 97>> [] k = 2 -> <<66, 66>> [] OTHER -> <<67>>

exportPublicKey(k, alg) == [kind |-> "publicKey", alg |-> alg, pair |-> k,
                            chars |-> IF alg = "ECDH" THEN KeyChars(k) ELSE <<83>> \o KeyChars(k)]

PrivateKey(k, alg) == [kind |-> "privateKey", alg |-> alg, pair |-> k]

PlainText(s) == [kind |-> "plaintext", text |-> s]

\* generateIdentityId: hash = ((hash << 5) - hash) + char, coerced to int32,
\* then |hash| in base 36, first 8 digits.  The model's key strings are at most
\* two chars, so the accumulator stays far inside the int32 range and the
\* coercion `hash & hash` leaves it as it is.
RECURSIVE HashChars(_, _)
HashChars(chars, hash) ==
    IF chars = <<>> THEN hash
    ELSE HashChars(Tail(chars), ((hash * 32) - hash) + Head(chars))

RECURSIVE ToBase36(_)
ToBase36(n) == IF n < 36 THEN <<n>> ELSE ToBase36(n \div 36) \o <<n % 36>>

Abs(n) == IF n < 0 THEN -n ELSE n

generateIdentityId(publicKey) ==
    LET digits == ToBase36(Abs(HashChars(publicKey.chars, 0)))
    IN  [kind |-> "id", digits |-> SubSeq(digits, 1, IF Len(digits) < 8 THEN Len(digits) ELSE 8)]

\* deriveSharedKey: ECDH gives both ends the same AES key
deriveSharedKey(privateKey, publicKey) == {privateKey.pair, publicKey.pair}

\* new TextEncoder().encode(message): the string is read as scalar values (a
\* surrogate pair is one value, a surrogate on its own becomes U+FFFD) and
\* each value is written in UTF-8
IsHighSurrogate(u) == u \in 55296..56319
IsLowSurrogate(u) == u \in 56320..57343

RECURSIVE ToScalarValues(_)
ToScalarValues(units) ==
    IF units = <<>> THEN <<>>
    ELSE IF IsHighSurrogate(units[1]) /\ Len(units) > 1 /\ IsLowSurrogate(units[2])
    THEN <<65536 + ((units[1] - 55296) * 1024) + (units[2] - 56320)>>
            \o ToScalarValues(SubSeq(units, 3, Len(units)))
    ELSE IF IsHighSurrogate(units[1]) \/ IsLowSurrogate(units[1])
    THEN <<65533>> \o ToScalarValues(Tail(units))
    ELSE <<units[1]>> \o ToScalarValues(Tail(units))

Utf8Bytes(cp) ==
    IF cp < 128 THEN <<cp>>
    ELSE IF cp < 2048 THEN <<192 + (cp \div 64), 128 + (cp % 64)>>
    ELSE IF cp < 65536
    THEN <<224 + (cp \div 4096), 128 + ((cp \div 64) % 64), 128 + (cp % 64)>>
    ELSE <<240 + (cp \div 262144), 128 + ((cp \div 4096) % 64), 128 + ((cp \div 64) % 64),
           128 + (cp % 64)>>

RECURSIVE Utf8Encode(_)
Utf8Encode(cps) == IF cps = <<>> THEN <<>> ELSE Utf8Bytes(Head(cps)) \o Utf8Encode(Tail(cps))

TextEncoderEncode(units) == Utf8Encode(ToScalarValues(units))

\* new TextDecoder().decode(bytes): UTF-8, not fatal, ignoreBOM false -- a
\* leading EF BB BF is taken as the byte order mark and left out of the
\* result; a byte that starts no well-formed sequence becomes U+FFFD
Utf8Length(lead) ==
    IF lead < 128 THEN 1
    ELSE IF lead \in 194..223 THEN 2
    ELSE IF lead \in 224..239 THEN 3
    ELSE IF lead \in 240..244 THEN 4
    ELSE 0

Utf8Value(b, n) ==
    IF n = 1 THEN b[1]
    ELSE IF n = 2 THEN ((b[1] - 192) * 64) + (b[2] - 128)
    ELSE IF n = 3 THEN ((b[1] - 224) * 4096) + ((b[2] - 128) * 64) + (b[3] - 128)
    ELSE ((b[1] - 240) * 262144) + ((b[2] - 128) * 4096) + ((b[3] - 128) * 64) + (b[4] - 128)

Utf8WellFormed(b, n) ==
    /\ n > 0 /\ Len(b) >= n
    /\ \A i \in 2..n : b[i] \in 128..191
    /\ n = 3 => Utf8Value(b, n) >= 2048 /\ Utf8Value(b, n) \notin 55296..57343
    /\ n = 4 => Utf8Value(b, n) \in 65536..1114111

RECURSIVE Utf8Decode(_)
Utf8Decode(b) ==
    IF b = <<>> THEN <<>>
    ELSE LET n == Utf8Length(b[1])
         IN  IF Utf8WellFormed(b, n)
             THEN <<Utf8Value(b, n)>> \o Utf8Decode(SubSeq(b, n + 1, Len(b)))
             ELSE <<65533>> \o Utf8Decode(Tail(b))

StripBom(b) ==
    IF Len(b) >= 3 /\ SubSeq(b, 1, 3) = <<239, 187, 191>> THEN SubSeq(b, 4, Len(b)) ELSE b

\* scalar values back to UTF-16 code units
RECURSIVE ToCodeUnits(_)
ToCodeUnits(cps) ==
    IF cps = <<>> THEN <<>>
    ELSE (IF Head(cps) >= 65536
          THEN <<55296 + ((Head(cps) - 65536) \div 1024), 56320 + ((Head(cps) - 65536) % 1024)>>
          ELSE <<Head(cps)>>) \o ToCodeUnits(Tail(cps))

TextDecoderDecode(bytes) == ToCodeUnits(Utf8Decode(StripBom(bytes)))

\* crypto.subtle.encrypt({name: "AES-GCM", iv}, sharedKey, data): the data
\* under the key stream of (key, iv), followed by the authentication tag over
\* the three
AesGcmEncrypt(key, iv, data) ==
    [kind |-> "ciphertext", key |-> key, iv |-> iv, sealed |-> data, tag |-> <<key, iv, data>>]

\* btoa(String.fromCharCode(...bytes)): the base64 text of the bytes; the bits
\* of its last character that carry no data (slack) are 0
btoa(bytes) == bytes @@ [slack |-> 0]

\* Uint8Array.from(atob(text), c => c.charCodeAt(0)): the bytes of a base64
\* text; atob does not look at the slack bits
atob(text) == [f \in DOMAIN text \ {"slack"} |-> text[f]]

\* encryptMessage with the fresh random iv the call drew (12 bytes, which are
\* 16 base64 characters with no slack bits)
encryptMessage(message, senderPrivateKey, recipientPublicKey, iv) ==
    LET sharedKey == deriveSharedKey(senderPrivateKey, recipientPublicKey)
        encodedMessage == TextEncoderEncode(message.text)
    IN  [encrypted |-> btoa(AesGcmEncrypt(sharedKey, iv, encodedMessage)),
         iv |-> [kind |-> "iv", n |-> iv]]

signMessage(message, privateKey) == [kind |-> "signature", by |-> privateKey.pair, over |-> message]

OperationError == [kind |-> "OperationError"]

\* an AES-GCM decrypt that does not check the tag: the bytes under the key
\* stream of the key and iv it is given
AesGcmDecrypt_NoTag(key, ivData, data) ==
    IF data.kind = "ciphertext" /\ ivData.kind = "iv"
    THEN [kind |-> "bytes",
          bytes |-> IF key = data.key /\ ivData.n = data.iv THEN data.sealed
                    ELSE <<0>> \o data.sealed]
    ELSE OperationError

\* crypto.subtle.decrypt({name: "AES-GCM", iv}, sharedKey, data): throws
\* OperationError unless the tag is the one of these bytes under this key
\* and iv
AesGcmDecrypt(key, ivData, data) ==
    IF /\ data.kind = "ciphertext" /\ ivData.kind = "iv"
       /\ data.tag = <<key, ivData.n, data.sealed>>
    THEN [kind |-> "bytes", bytes |-> data.sealed]
    ELSE OperationError

\* decryptMessage
decryptMessage(encrypted, iv, recipientPrivateKey, senderPublicKey) ==
    LET sharedKey == deriveSharedKey(recipientPrivateKey, senderPublicKey)
        decrypted == AesGcmDecrypt(sharedKey, atob(iv), atob(encrypted))
    IN  IF decrypted = OperationError THEN OperationError
        ELSE PlainText(TextDecoderDecode(decrypted.bytes))

\* verifySignature: ECDSA verify of the signature over the message
verifySignature(message, signature, publicKey) ==
    /\ signature.kind = "signature"
    /\ publicKey.alg = "ECDSA"
    /\ signature.by = publicKey.pair
    /\ signature.over = message

\* ------------------------------------------------------------------ state
VARIABLES
    state,              \* MessagingState (useState in MessagingProvider)
    encryptionKeyPair,  \* useState<CryptoKeyPair | null>
    signingKeyPair,     \* useState<CryptoKeyPair | null>
    db,                 \* IndexedDB 'mesh-messenger': identity, contacts, messages, messageQueue
    processingRef,      \* useRef(false) of useMessageRelay
    drains,             \* processQueue invocations suspended at sendViaRelay
    drainsSinceOnline,  \* history: loops of processQueue entered since isOnline last
                        \* became true (2 stands for two or more)
    sends,              \* sendMessage invocations suspended at an await
    loads,              \* selectContact invocations suspended at getMessagesByContact
    pending_messages,   \* the relay table, in insertion order
    now,                \* the relay clock
    scanTimers,         \* setTimeout callbacks of startP2PScan not yet run
    request,            \* body of the last request POSTed to the relay
    response,           \* the relay's answer to the last request
    sendMessageResult,  \* how the promise of the last sendMessage call settled, as
                        \* handleSend sees it: "none", "pending", "resolved", "rejected"
    channel,            \* the realtime channel 'pending-messages': INSERT payloads on
                        \* their way to the hook's callback, and the toasts it has shown;
                        \* with it, whether useMessageRelay is mounted and the filters of
                        \* the subscriptions the realtime client holds
    crypto,             \* a caller of the encryption module on its own: what it gave
                        \* to encryptMessage and decryptMessage and what they returned
    enqueued,           \* history: the ids sendMessage has put into the messageQueue
                        \* store, in the order of its queueMessage calls
    processQueueCall,   \* history: what the last call of processQueue by a consumer
                        \* of the hook found (isOnline, identity, processingRef)
    scanner             \* QRCodeScanner: isScanning and error (useState)

vars == <<state, encryptionKeyPair, signingKeyPair, db, processingRef, drains,
          drainsSinceOnline, sends, loads, scanTimers, pending_messages, now, request, response,
          sendMessageResult, channel, crypto, enqueued, processQueueCall, scanner>>

NoResponse == [status |-> 0]

NoChannel == [mounted |-> TRUE, subscriptions |-> <<>>, payloads |-> <<>>, toasts |-> 0]

NoCrypto == [pc |-> "idle"]

NoCall == [called |-> FALSE]

NoScanner == [isScanning |-> FALSE, error |-> Null]

\* ------------------------------------------------------------ IndexedDB
\* put without the overwrite: a record is added next to the one stored under
\* the same key
Put_KeepsOld(store, rec) == store \cup {rec}

\* put on a store with keyPath 'id': overwrite by key
Put(store, rec) == {r \in store : r.id # rec.id} \cup {rec}

Ids(store) == {r.id : r \in store}

\* getAll / getAllFromIndex answer in key order
RECURSIVE InKeyOrder(_)
InKeyOrder(store) ==
    IF store = {} THEN <<>>
    ELSE LET first == CHOOSE r \in store : \A o \in store : r.id <= o.id
         IN  <<first>> \o InKeyOrder(store \ {first})

saveMessage(d, message) == [d EXCEPT !.messages = Put(@, message)]

queueMessage(d, message) == [d EXCEPT !.messageQueue = Put(@, message)]

saveContact(d, contact) == [d EXCEPT !.contacts = Put(@, contact)]

saveIdentity(d, identity) == [d EXCEPT !.identity = identity]

getQueuedMessages(d) == InKeyOrder(d.messageQueue)

\* contact keys are strings: a < b when a is a proper prefix of b or smaller at
\* the first place they differ
RECURSIVE StringLess(_, _)
StringLess(a, b) ==
    IF b = <<>> THEN FALSE
    ELSE IF a = <<>> THEN TRUE
    ELSE IF Head(a) # Head(b) THEN Head(a) < Head(b)
    ELSE StringLess(Tail(a), Tail(b))

RECURSIVE InStringKeyOrder(_)
InStringKeyOrder(store) ==
    IF store = {} THEN <<>>
    ELSE LET first == CHOOSE r \in store : \A o \in store : ~StringLess(o.id.digits, r.id.digits)
         IN  <<first>> \o InStringKeyOrder(store \ {first})

getAllContacts(d) == InStringKeyOrder(d.contacts)

getMessagesByContact(d, contactId) == InKeyOrder({m \in d.messages : m.contactId = contactId})

removeFromQueue(d, id) == [d EXCEPT !.messageQueue = {q \in @ : q.id # id}]

updateQueuedMessage(d, message) == [d EXCEPT !.messageQueue = Put(@, message)]

updateMessageStatus(d, id, status) ==
    IF \E m \in d.messages : m.id = id
    THEN [d EXCEPT !.messages = {IF m.id = id THEN [m EXCEPT !.status = status] ELSE m : m \in @}]
    ELSE d

EmptyDb == [identity |-> Null, contacts |-> {}, messages |-> {}, messageQueue |-> {}]

\* -------------------------------------------------------- MessagingProvider
\* useState initial value; isOnline is navigator.onLine at mount
InitialState(onLine) ==
    [identity |-> Null, contacts |-> <<>>, activeContactId |-> Null, messages |-> <<>>,
     connectionMode |-> "offline", isOnline |-> onLine, isP2PScanning |-> FALSE,
     nearbyDevices |-> {}, queuedMessages |-> <<>>, isInitialized |-> FALSE]

\* state.messages is a Record<string, Message[]>: kept as a sequence of
\* [contactId, list] entries, at most one per contactId
HasMessagesOf(messages, contactId) ==
    \E i \in 1..Len(messages) : messages[i].contactId = contactId

\* messages[contactId] || []
MessagesOf(messages, contactId) ==
    IF HasMessagesOf(messages, contactId)
    THEN (messages[CHOOSE i \in 1..Len(messages) : messages[i].contactId = contactId]).list
    ELSE <<>>

SetMessagesOf(messages, contactId, list) ==
    IF HasMessagesOf(messages, contactId)
    THEN [i \in 1..Len(messages) |->
            IF messages[i].contactId = contactId THEN [contactId |-> contactId, list |-> list]
            ELSE messages[i]]
    ELSE Append(messages, [contactId |-> contactId, list |-> list])

\* ------------------------------------------------------------ relay table
NoTime == -1

Missing(field) == field = Null \/ field = EmptyString

\* a validation that lets a send without iv through
RelaySendValid_IvOptional(body) ==
    ~(Missing(body.senderPublicKey) \/ Missing(body.recipientPublicKey)
      \/ Missing(body.encryptedContent))

\* case "send": validate, insert one row with the table's defaults
RelaySendValid(body) ==
    ~(Missing(body.senderPublicKey) \/ Missing(body.recipientPublicKey)
      \/ Missing(body.encryptedContent) \/ Missing(body.iv))

NewEnvelope(table, body, t) ==
    [id |-> Len(table) + 1,
     sender_public_key |-> body.senderPublicKey,
     recipient_public_key |-> body.recipientPublicKey,
     encrypted_content |-> body.encryptedContent,
     iv |-> body.iv,
     signature |-> body.signature,
     created_at |-> t,
     expires_at |-> t + ExpiryDays,
     delivered_at |-> NoTime,
     delivery_attempts |-> 0]

\* case "fetch": rows of the recipient with delivered_at null and
\* expires_at < now + 7 days, in created_at order (the table is kept in
\* insertion order and created_at never decreases along it)
FetchFilter(e, recipientPublicKey, t) ==
    /\ e.recipient_public_key = recipientPublicKey
    /\ e.delivered_at = NoTime
    /\ e.expires_at < t + ExpiryDays

\* a fetch whose order clause is descending
InsertByCreatedAt_Descending(sorted, e) ==
    LET k == Cardinality({i \in 1..Len(sorted) : sorted[i].created_at > e.created_at})
    IN  SubSeq(sorted, 1, k) \o <<e>> \o SubSeq(sorted, k + 1, Len(sorted))

\* .order("created_at", { ascending: true }): the place of a row among rows
\* already in order (rows of equal created_at keep the order they come in)
InsertByCreatedAt(sorted, e) ==
    LET k == Cardinality({i \in 1..Len(sorted) : sorted[i].created_at <= e.created_at})
    IN  SubSeq(sorted, 1, k) \o <<e>> \o SubSeq(sorted, k + 1, Len(sorted))

RECURSIVE OrderByCreatedAt(_)
OrderByCreatedAt(rows) ==
    IF rows = <<>> THEN <<>>
    ELSE InsertByCreatedAt(OrderByCreatedAt(SubSeq(rows, 1, Len(rows) - 1)), rows[Len(rows)])

RelayFetchRows(table, recipientPublicKey, t) ==
    OrderByCreatedAt(SelectSeq(table, LAMBDA e : FetchFilter(e, recipientPublicKey, t)))

\* an acknowledge that flips the delivery mark
RelayAcknowledgeRows_Toggle(table, messageId, t) ==
    [i \in 1..Len(table) |->
        IF table[i].id = messageId
        THEN [table[i] EXCEPT !.delivered_at = IF @ = NoTime THEN t ELSE NoTime,
                              !.delivery_attempts = 1]
        ELSE table[i]]

\* case "acknowledge": update ... set delivered_at = now, delivery_attempts = 1 where id = messageId
RelayAcknowledgeRows(table, messageId, t) ==
    [i \in 1..Len(table) |->
        IF table[i].id = messageId
        THEN [table[i] EXCEPT !.delivered_at = t, !.delivery_attempts = 1]
        ELSE table[i]]

\* ------------------------------------------------------- useMessageRelay
\* a sendViaRelay that posts the text the ciphertext seals
SendBody_Plaintext(identity, recipientPublicKey, encryptedContent, iv, signature) ==
    [action |-> "send", senderPublicKey |-> identity.publicKey,
     recipientPublicKey |-> recipientPublicKey,
     encryptedContent |-> PlainText(encryptedContent.sealed),
     iv |-> iv, signature |-> signature]

\* body of the POST sendViaRelay makes
SendBody(identity, recipientPublicKey, encryptedContent, iv, signature) ==
    [action |-> "send", senderPublicKey |-> identity.publicKey,
     recipientPublicKey |-> recipientPublicKey, encryptedContent |-> encryptedContent,
     iv |-> iv, signature |-> signature]

QueuedBody(identity, msg) ==
    SendBody(identity, msg.recipientPublicKey, msg.encrypted, msg.iv, msg.signature)

\* the subscription effect: while there is an identity the hook listens to
\* INSERTs on pending_messages with recipient_public_key = identity.publicKey;
\* supabase.removeChannel(channel): the subscription made for `filter` is gone
RemoveChannel(subscriptions, filter) ==
    IF \E i \in 1..Len(subscriptions) : subscriptions[i] = filter
    THEN LET i == CHOOSE j \in 1..Len(subscriptions) : subscriptions[j] = filter
         IN  SubSeq(subscriptions, 1, i - 1) \o SubSeq(subscriptions, i + 1, Len(subscriptions))
    ELSE subscriptions

\* a subscription effect that returns no cleanup
SubscriptionEffect_NoCleanup(ch, old, new) ==
    IF ~ch.mounted \/ new = Null THEN ch
    ELSE [ch EXCEPT !.subscriptions = Append(@, new.publicKey)]

\* the effect "Subscribe to realtime updates", deps [identity], after a render
\* with a new identity object: the cleanup of the last run removes the channel
\* that run made (with what was on its way to its callback), then the effect
\* subscribes with the filter recipient_public_key=eq.<identity.publicKey>,
\* or returns at once when there is no identity
SubscriptionEffect(ch, old, new) ==
    IF ~ch.mounted THEN ch
    ELSE LET cleaned == IF old # Null
                        THEN [ch EXCEPT !.subscriptions = RemoveChannel(@, old.publicKey),
                                        !.payloads = <<>>]
                        ELSE ch
         IN  IF new = Null THEN cleaned
             ELSE [cleaned EXCEPT !.subscriptions = Append(@, new.publicKey)]

\* an insert of a row puts its payload on the channel, once for every
\* subscription whose filter the row passes
Publish(row) ==
    LET matching == {i \in 1..Len(channel.subscriptions) :
                        channel.subscriptions[i] = row.recipient_public_key}
    IN  [channel EXCEPT !.payloads = @ \o [i \in 1..Cardinality(matching) |-> row]]

\* the subscription's callback, run with the next payload: console.log and
\* toast.info('New message received!')
onPostgresChanges ==
    /\ channel.payloads # <<>>
    /\ channel' = [channel EXCEPT !.payloads = Tail(@), !.toasts = @ + 1]
    /\ UNCHANGED <<state, encryptionKeyPair, signingKeyPair, db, processingRef, drains,
                   drainsSinceOnline, sends, loads, scanTimers, pending_messages, now, request,
                   response, sendMessageResult, crypto, enqueued, processQueueCall, scanner>>

\* a processQueue that does not look at isOnline
ProcessQueueRuns_IgnoresOnline(st, ref) == st.identity # Null /\ ~ref

\* a processQueue that does not look at processingRef
ProcessQueueRuns_Unguarded(st, ref) == st.isOnline /\ st.identity # Null

\* processQueue's guard: if (!isOnline || !identity || processingRef.current) return
ProcessQueueRuns(st, ref) == st.isOnline /\ st.identity # Null /\ ~ref

\* the history variable after a step that entered (or did not enter) the loop
DrainsCounted(entered) ==
    LET since == IF ~state.isOnline /\ state'.isOnline THEN 0 ELSE drainsSinceOnline
    IN  IF ~entered THEN since ELSE IF since < 2 THEN since + 1 ELSE 2

\* the effect "Process queue when coming online", run after a render in which
\* one of its dependencies (isOnline, queuedMessages.length, processQueue)
\* changed: it calls processQueue, which runs up to its first await (no effect
\* runs while the hook is not mounted)
DrainEffect(depsChanged) ==
    IF depsChanged /\ channel.mounted /\ state'.isOnline /\ Len(state'.queuedMessages) > 0
       /\ ProcessQueueRuns(state', processingRef)
    THEN /\ processingRef' = TRUE
         /\ drains' = Append(drains, [identity |-> state'.identity,
                                       items |-> state'.queuedMessages, i |-> 1])
         /\ drainsSinceOnline' = DrainsCounted(TRUE)
    ELSE /\ UNCHANGED <<processingRef, drains>>
         /\ drainsSinceOnline' = DrainsCounted(FALSE)

\* window 'online' event
handleOnline ==
    /\ ~state.isOnline
    /\ state' = [state EXCEPT !.isOnline = TRUE,
                              !.connectionMode = IF state.isP2PScanning THEN "hybrid" ELSE "online"]
    /\ DrainEffect(TRUE)
    /\ UNCHANGED <<encryptionKeyPair, signingKeyPair, db, sends, loads, pending_messages,
                   scanTimers, now, request, response, sendMessageResult, channel, crypto,
                   enqueued, processQueueCall, scanner>>

\* window 'offline' event
handleOffline ==
    /\ state.isOnline
    /\ state' = [state EXCEPT !.isOnline = FALSE,
                              !.connectionMode = IF state.isP2PScanning THEN "p2p" ELSE "offline"]
    /\ DrainEffect(TRUE)
    /\ UNCHANGED <<encryptionKeyPair, signingKeyPair, db, sends, loads, pending_messages,
                   scanTimers, now, request, response, sendMessageResult, channel, crypto,
                   enqueued, processQueueCall, scanner>>

KeyPair(k, alg) == [kind |-> "keyPair", pair |-> k,
                     publicKey |-> exportPublicKey(k, alg), privateKey |-> PrivateKey(k, alg)]

\* createIdentity, as the context gives it to every consumer
createIdentityCalled(k, displayName) ==
    /\ state.isInitialized
    /\ LET encPublicKey == exportPublicKey(k, "ECDH")
           signPublicKey == exportPublicKey(k, "ECDSA")
           id == generateIdentityId(encPublicKey)
       IN  /\ db' = saveIdentity(db, [id |-> id,
                                      encryptionPublicKey |-> encPublicKey,
                                      encryptionPrivateKey |-> PrivateKey(k, "ECDH"),
                                      signingPublicKey |-> signPublicKey,
                                      signingPrivateKey |-> PrivateKey(k, "ECDSA"),
                                      displayName |-> displayName, createdAt |-> now])
           /\ encryptionKeyPair' = KeyPair(k, "ECDH")
           /\ signingKeyPair' = KeyPair(k, "ECDSA")
           /\ state' = [state EXCEPT !.identity = [id |-> id, publicKey |-> encPublicKey,
                                                   signingPublicKey |-> signPublicKey,
                                                   displayName |-> displayName]]
    /\ DrainEffect(TRUE)
    /\ channel' = SubscriptionEffect(channel, state.identity, state'.identity)
    /\ UNCHANGED <<sends, loads, pending_messages, scanTimers, now, request, response,
                   sendMessageResult, crypto, enqueued, processQueueCall, scanner>>

\* createIdentity from OnboardingScreen, shown only while there is no identity
createIdentity(k, displayName) ==
    /\ state.identity = Null
    /\ createIdentityCalled(k, displayName)

\* addContact (AddContactDialog is reached only with an identity)
addContactCalled(publicKey, signingKey, displayName) ==
    /\ state.identity # Null
    /\ Len(state.contacts) < MaxContacts
    /\ LET contact == [id |-> generateIdentityId(publicKey), publicKey |-> publicKey,
                       signingPublicKey |-> signingKey,
                       displayName |-> displayName, addedAt |-> now,
                       connectionType |-> "unknown"]
       IN  /\ db' = saveContact(db, contact)
           /\ state' = [state EXCEPT !.contacts = Append(@, contact)]
    /\ UNCHANGED <<encryptionKeyPair, signingKeyPair, processingRef, drains, drainsSinceOnline,
                   sends, loads, pending_messages, scanTimers, now, request, response,
                   sendMessageResult, channel, crypto, enqueued, processQueueCall, scanner>>

\* AddContactDialog.handleAdd with the two keys a peer exported
addContact(k, displayName) ==
    addContactCalled(exportPublicKey(k, "ECDH"), exportPublicKey(k, "ECDSA"), displayName)

\* selectContact up to its await: the list of a contact is loaded only when
\* state.messages has no entry for it
selectContact(contactId) ==
    /\ state.identity # Null
    /\ state' = [state EXCEPT !.activeContactId = contactId]
    /\ loads' = IF contactId # Null /\ ~HasMessagesOf(state.messages, contactId)
                THEN Append(loads, [contactId |-> contactId, pc |-> "read", rows |-> <<>>])
                ELSE loads
    /\ Len(loads') <= MaxInflight
    /\ UNCHANGED <<encryptionKeyPair, signingKeyPair, db, processingRef, drains,
                   drainsSinceOnline, sends, pending_messages, scanTimers, now, request,
                   response, sendMessageResult, channel, crypto, enqueued, processQueueCall,
                   scanner>>

RemoveAt(seq, i) == SubSeq(seq, 1, i - 1) \o SubSeq(seq, i + 1, Len(seq))

\* getMessagesByContact reads the store
selectContactRead(i) ==
    /\ loads[i].pc = "read"
    /\ loads' = [loads EXCEPT ![i] = [@ EXCEPT !.pc = "set",
                                               !.rows = getMessagesByContact(db, loads[i].contactId)]]
    /\ UNCHANGED <<state, encryptionKeyPair, signingKeyPair, db, processingRef, drains,
                   drainsSinceOnline, sends, pending_messages, scanTimers, now, request,
                   response, sendMessageResult, channel, crypto, enqueued, processQueueCall,
                   scanner>>

\* ... and selectContact resumes: messages[contactId] = contactMessages
selectContactSet(i) ==
    /\ loads[i].pc = "set"
    /\ state' = [state EXCEPT !.messages = SetMessagesOf(@, loads[i].contactId, loads[i].rows)]
    /\ loads' = RemoveAt(loads, i)
    /\ UNCHANGED <<encryptionKeyPair, signingKeyPair, db, processingRef, drains,
                   drainsSinceOnline, sends, pending_messages, scanTimers, now, request,
                   response, sendMessageResult, channel, crypto, enqueued, processQueueCall,
                   scanner>>

\* state.contacts.find(c => c.id === state.activeContactId): the first match
FindContact(contacts, contactId) ==
    IF \E i \in 1..Len(contacts) : contacts[i].id = contactId
    THEN contacts[CHOOSE i \in 1..Len(contacts) :
                    /\ contacts[i].id = contactId
                    /\ \A j \in 1..(i - 1) : contacts[j].id # contactId]
    ELSE Null

\* ChatView.handleSend: a send is not started while the last one is running
isSending == Len(sends) > 0

UuidsInUse == Ids(db.messages) \cup {sends[i].message.id : i \in 1..Len(sends)}

\* the Message sendMessage builds; status and deliveryMethod from the
\* isOnline of the render the callback was made in
NewMessage(messageId, contactId, content, sealed, signature, timestamp, isOnline) ==
    [id |-> messageId, contactId |-> contactId, content |-> content,
     encrypted |-> sealed.encrypted, iv |-> sealed.iv, signature |-> signature,
     timestamp |-> timestamp, direction |-> "sent",
     status |-> IF isOnline THEN "sent" ELSE "pending",
     deliveryMethod |-> IF isOnline THEN "direct" ELSE "store-forward"]

\* a queuedMsg that starts with one attempt counted
NewQueuedMessage_OneAttempt(message, contact) ==
    [id |-> message.id, recipientId |-> contact.id, recipientPublicKey |-> contact.publicKey,
     encrypted |-> message.encrypted, iv |-> message.iv, signature |-> message.signature,
     timestamp |-> message.timestamp, attempts |-> 1]

\* the QueuedMessage sendMessage builds when the render was offline
NewQueuedMessage(message, contact) ==
    [id |-> message.id, recipientId |-> contact.id, recipientPublicKey |-> contact.publicKey,
     encrypted |-> message.encrypted, iv |-> message.iv, signature |-> message.signature,
     timestamp |-> message.timestamp, attempts |-> 0]

\* sendMessage up to `await saveMessage(message)`: the guards, the uuid, the
\* key import, encryptMessage and signMessage
sendMessage(text, messageId) ==
    /\ state.activeContactId # Null /\ state.identity # Null /\ encryptionKeyPair # Null
    /\ FindContact(state.contacts, state.activeContactId) # Null
    /\ ~isSending
    /\ messageId \notin UuidsInUse
    /\ LET contact == FindContact(state.contacts, state.activeContactId)
           content == PlainText(text)
           sealed == encryptMessage(content, encryptionKeyPair.privateKey, contact.publicKey,
                                    messageId)
           signature == IF signingKeyPair # Null
                        THEN signMessage(sealed.encrypted, signingKeyPair.privateKey)
                        ELSE EmptyString
       IN  sends' = Append(sends,
                [pc |-> "saveMessage", contact |-> contact, isOnline |-> state.isOnline,
                 message |-> NewMessage(messageId, state.activeContactId, content, sealed,
                                        signature, now, state.isOnline)])
    /\ sendMessageResult' = "pending"
    /\ UNCHANGED <<state, encryptionKeyPair, signingKeyPair, db, processingRef, drains,
                   drainsSinceOnline, loads, pending_messages, scanTimers, now, request,
                   response, channel, crypto, enqueued, processQueueCall, scanner>>

\* await saveMessage(message)
sendMessageSave(i) ==
    /\ sends[i].pc = "saveMessage"
    /\ db' = saveMessage(db, sends[i].message)
    /\ sends' = [sends EXCEPT ![i] = [@ EXCEPT !.pc = "setMessages"]]
    /\ UNCHANGED <<state, encryptionKeyPair, signingKeyPair, processingRef, drains,
                   drainsSinceOnline, loads, pending_messages, scanTimers, now, request,
                   response, sendMessageResult, channel, crypto, enqueued, processQueueCall,
                   scanner>>

\* a sendMessage that decides about the queue by the isOnline of the moment it
\* resumes, not by the one its message was built with
sendMessageSetMessages_ReadsIsOnlineLate(i) ==
    /\ sends[i].pc = "setMessages"
    /\ LET contactId == sends[i].message.contactId
       IN  state' = [state EXCEPT !.messages =
                        SetMessagesOf(@, contactId,
                                      Append(MessagesOf(@, contactId), sends[i].message))]
    /\ sends' = IF state.isOnline THEN RemoveAt(sends, i)
                ELSE [sends EXCEPT ![i] = [@ EXCEPT !.pc = "queueMessage"]]
    /\ sendMessageResult' = IF state.isOnline THEN "resolved" ELSE sendMessageResult
    /\ UNCHANGED <<encryptionKeyPair, signingKeyPair, db, processingRef, drains,
                   drainsSinceOnline, loads, pending_messages, scanTimers, now, request,
                   response, channel, crypto, enqueued, processQueueCall, scanner>>

\* sendMessage resumes: append to messages[activeContactId]; online, it ends here
sendMessageSetMessages(i) ==
    /\ sends[i].pc = "setMessages"
    /\ LET contactId == sends[i].message.contactId
       IN  state' = [state EXCEPT !.messages =
                        SetMessagesOf(@, contactId,
                                      Append(MessagesOf(@, contactId), sends[i].message))]
    /\ sends' = IF sends[i].isOnline THEN RemoveAt(sends, i)
                ELSE [sends EXCEPT ![i] = [@ EXCEPT !.pc = "queueMessage"]]
    /\ sendMessageResult' = IF sends[i].isOnline THEN "resolved" ELSE sendMessageResult
    /\ UNCHANGED <<encryptionKeyPair, signingKeyPair, db, processingRef, drains,
                   drainsSinceOnline, loads, pending_messages, scanTimers, now, request,
                   response, channel, crypto, enqueued, processQueueCall, scanner>>

\* if (!state.isOnline): await queueMessage(queuedMsg)
sendMessageQueue(i) ==
    /\ sends[i].pc = "queueMessage"
    /\ db' = queueMessage(db, NewQueuedMessage(sends[i].message, sends[i].contact))
    /\ enqueued' = Append(enqueued, sends[i].message.id)
    /\ sends' = [sends EXCEPT ![i] = [@ EXCEPT !.pc = "setQueued"]]
    /\ UNCHANGED <<state, encryptionKeyPair, signingKeyPair, processingRef, drains,
                   drainsSinceOnline, loads, pending_messages, scanTimers, now, request,
                   response, sendMessageResult, channel, crypto, processQueueCall, scanner>>

\* ... and sendMessage resumes: append to queuedMessages (a new array: the
\* drain effect runs again)
sendMessageSetQueued(i) ==
    /\ sends[i].pc = "setQueued"
    /\ state' = [state EXCEPT !.queuedMessages =
                     Append(@, NewQueuedMessage(sends[i].message, sends[i].contact))]
    /\ sends' = RemoveAt(sends, i)
    /\ sendMessageResult' = "resolved"
    /\ DrainEffect(TRUE)
    /\ UNCHANGED <<encryptionKeyPair, signingKeyPair, db, loads, pending_messages, scanTimers,
                   now, request, response, channel, crypto, enqueued, processQueueCall, scanner>>

\* sendMessage called with no active contact, no identity, no key pair or an
\* active contact that is not in state.contacts: `return`
sendMessageReturns ==
    /\ ~isSending
    /\ \/ state.activeContactId = Null \/ state.identity = Null \/ encryptionKeyPair = Null
       \/ FindContact(state.contacts, state.activeContactId) = Null
    /\ sendMessageResult' = "resolved"
    /\ UNCHANGED <<state, encryptionKeyPair, signingKeyPair, db, processingRef, drains,
                   drainsSinceOnline, sends, loads, pending_messages, scanTimers, now, request,
                   response, channel, crypto, enqueued, processQueueCall, scanner>>

\* importKey, encryptMessage or signMessage throws: caught by the try around
\* the body, logged, and sendMessage returns
sendMessageThrows ==
    /\ state.activeContactId # Null /\ state.identity # Null /\ encryptionKeyPair # Null
    /\ FindContact(state.contacts, state.activeContactId) # Null
    /\ ~isSending
    /\ sendMessageResult' = "resolved"
    /\ UNCHANGED <<state, encryptionKeyPair, signingKeyPair, db, processingRef, drains,
                   drainsSinceOnline, sends, loads, pending_messages, scanTimers, now, request,
                   response, channel, crypto, enqueued, processQueueCall, scanner>>

\* await saveMessage(message) rejects: caught, logged, sendMessage returns
sendMessageSaveFails(i) ==
    /\ sends[i].pc = "saveMessage"
    /\ sends' = RemoveAt(sends, i)
    /\ sendMessageResult' = "resolved"
    /\ UNCHANGED <<state, encryptionKeyPair, signingKeyPair, db, processingRef, drains,
                   drainsSinceOnline, loads, pending_messages, scanTimers, now, request,
                   response, channel, crypto, enqueued, processQueueCall, scanner>>

\* await queueMessage(queuedMsg) rejects: caught, logged, sendMessage returns
sendMessageQueueFails(i) ==
    /\ sends[i].pc = "queueMessage"
    /\ sends' = RemoveAt(sends, i)
    /\ sendMessageResult' = "resolved"
    /\ UNCHANGED <<state, encryptionKeyPair, signingKeyPair, db, processingRef, drains,
                   drainsSinceOnline, loads, pending_messages, scanTimers, now, request,
                   response, channel, crypto, enqueued, processQueueCall, scanner>>

\* processQueue, one turn of its loop with the relay storing the row:
\* sendViaRelay resolves, nothing else is done for the item, and the loop goes
\* on; after the last item `finally` clears processingRef
processQueueNext(d) ==
    IF drains[d].i = Len(drains[d].items)
    THEN /\ drains' = RemoveAt(drains, d)
         /\ processingRef' = FALSE
    ELSE /\ drains' = [drains EXCEPT ![d] = [@ EXCEPT !.i = @ + 1]]
         /\ UNCHANGED processingRef

processQueueRelayed(d) ==
    LET body == QueuedBody(drains[d].identity, drains[d].items[drains[d].i])
    IN  /\ Len(pending_messages) < MaxEnvelopes
        /\ RelaySendValid(body)
        /\ request' = body
        /\ pending_messages' = Append(pending_messages, NewEnvelope(pending_messages, body, now))
        /\ channel' = Publish(NewEnvelope(pending_messages, body, now))
        /\ response' = [status |-> 200, messageId |-> Len(pending_messages) + 1]
        /\ processQueueNext(d)
        /\ UNCHANGED <<state, encryptionKeyPair, signingKeyPair, db, drainsSinceOnline, sends,
                       loads, scanTimers, now, sendMessageResult, crypto, enqueued,
                       processQueueCall, scanner>>

\* a processQueue whose loop ends at the first failed POST
processQueueFailed_Aborts(d) ==
    LET body == QueuedBody(drains[d].identity, drains[d].items[drains[d].i])
    IN  /\ request' = body
        /\ response' = [status |-> IF RelaySendValid(body) THEN 500 ELSE 400]
        /\ drains' = RemoveAt(drains, d)
        /\ processingRef' = FALSE
        /\ UNCHANGED <<state, encryptionKeyPair, signingKeyPair, db, drainsSinceOnline, sends,
                       loads, pending_messages, scanTimers, now, sendMessageResult, channel,
                       crypto, enqueued, processQueueCall, scanner>>

\* ... or with the POST failing (network error, 400 or 500): caught and logged
processQueueFailed(d) ==
    LET body == QueuedBody(drains[d].identity, drains[d].items[drains[d].i])
    IN  /\ request' = body
        /\ response' = [status |-> IF RelaySendValid(body) THEN 500 ELSE 400]
        /\ processQueueNext(d)
        /\ UNCHANGED <<state, encryptionKeyPair, signingKeyPair, db, drainsSinceOnline, sends,
                       loads, pending_messages, scanTimers, now, sendMessageResult, channel,
                       crypto, enqueued, processQueueCall, scanner>>

\* fetchPendingMessages: POST {action: 'fetch', recipientPublicKey}; it
\* returns the messages of the reply, and [] after logging when the reply is
\* not ok (`returned` is what the caller gets)
fetchPendingMessages(ok) ==
    /\ state.identity # Null
    /\ LET body == [action |-> "fetch", recipientPublicKey |-> state.identity.publicKey]
           rows == RelayFetchRows(pending_messages, body.recipientPublicKey, now)
       IN  /\ request' = body
           /\ response' = IF ok
                          THEN [status |-> 200, messages |-> rows, returned |-> rows]
                          ELSE [status |-> 500, messages |-> <<>>, returned |-> <<>>]
    /\ UNCHANGED <<state, encryptionKeyPair, signingKeyPair, db, processingRef, drains,
                   drainsSinceOnline, sends, loads, scanTimers, pending_messages, now,
                   sendMessageResult, channel, crypto, enqueued, processQueueCall, scanner>>

\* acknowledgeMessage: POST {action: 'acknowledge', messageId}, returns response.ok
acknowledgeMessage(messageId, ok) ==
    /\ LET body == [action |-> "acknowledge", messageId |-> messageId]
       IN  /\ request' = body
           /\ pending_messages' = IF ok THEN RelayAcknowledgeRows(pending_messages, messageId, now)
                                   ELSE pending_messages
           /\ response' = [status |-> IF ok THEN 200 ELSE 500]
    /\ UNCHANGED <<state, encryptionKeyPair, signingKeyPair, db, processingRef, drains,
                   drainsSinceOnline, sends, loads, scanTimers, now, sendMessageResult, channel,
                   crypto, enqueued, processQueueCall, scanner>>

\* startP2PScan (the scan button shows it only while not scanning)
startP2PScan ==
    /\ state.identity # Null /\ ~state.isP2PScanning
    /\ scanTimers < MaxInflight
    /\ state' = [state EXCEPT !.isP2PScanning = TRUE,
                              !.connectionMode = IF state.isOnline THEN "hybrid" ELSE "p2p"]
    /\ scanTimers' = scanTimers + 1
    /\ UNCHANGED <<encryptionKeyPair, signingKeyPair, db, processingRef, drains,
                   drainsSinceOnline, sends, loads, pending_messages, now, request, response,
                   sendMessageResult, channel, crypto, enqueued, processQueueCall, scanner>>

\* the setTimeout of startP2PScan, 2000 ms later
startP2PScanTimeout ==
    /\ scanTimers > 0
    /\ scanTimers' = scanTimers - 1
    /\ state' = [state EXCEPT !.nearbyDevices = {"demo-1"}]
    /\ UNCHANGED <<encryptionKeyPair, signingKeyPair, db, processingRef, drains,
                   drainsSinceOnline, sends, loads, pending_messages, now, request, response,
                   sendMessageResult, channel, crypto, enqueued, processQueueCall, scanner>>

stopP2PScan ==
    /\ state.identity # Null /\ state.isP2PScanning
    /\ state' = [state EXCEPT !.isP2PScanning = FALSE,
                              !.connectionMode = IF state.isOnline THEN "online" ELSE "offline",
                              !.nearbyDevices = {}]
    /\ UNCHANGED <<encryptionKeyPair, signingKeyPair, db, processingRef, drains,
                   drainsSinceOnline, sends, loads, scanTimers, pending_messages, now, request,
                   response, sendMessageResult, channel, crypto, enqueued, processQueueCall,
                   scanner>>

\* an init() that does not read the stored identity
InitLoaded_NoIdentity(st, d) ==
    [st EXCEPT !.isInitialized = TRUE,
               !.contacts = getAllContacts(d),
               !.queuedMessages = getQueuedMessages(d)]

\* init(), the mount effect: the stored identity, contacts and queue go into
\* the state; the key pairs are not rebuilt
InitLoaded(st, d) ==
    [st EXCEPT !.identity = IF d.identity # Null
                            THEN [id |-> d.identity.id, publicKey |-> d.identity.encryptionPublicKey,
                                  signingPublicKey |-> d.identity.signingPublicKey,
                                  displayName |-> d.identity.displayName]
                            ELSE Null,
               !.isInitialized = TRUE,
               !.contacts = getAllContacts(d),
               !.queuedMessages = getQueuedMessages(d)]

\* the app is closed and opened again: every suspended callback is gone, the
\* provider and the hook mount afresh and init() runs on the stores
Restart(onLine) ==
    /\ state.identity # Null
    /\ state' = InitLoaded(InitialState(onLine), db)
    /\ encryptionKeyPair' = Null
    /\ signingKeyPair' = Null
    /\ sends' = <<>>
    /\ loads' = <<>>
    /\ scanTimers' = 0
    /\ sendMessageResult' = "none"
    /\ channel' = SubscriptionEffect(NoChannel, Null, state'.identity)
    /\ IF state'.isOnline /\ Len(state'.queuedMessages) > 0 /\ ProcessQueueRuns(state', FALSE)
       THEN /\ processingRef' = TRUE
            /\ drains' = <<[identity |-> state'.identity, items |-> state'.queuedMessages, i |-> 1]>>
            /\ drainsSinceOnline' = DrainsCounted(TRUE)
       ELSE /\ processingRef' = FALSE
            /\ drains' = <<>>
            /\ drainsSinceOnline' = DrainsCounted(FALSE)
    /\ UNCHANGED <<db, pending_messages, now, request, response, crypto, enqueued,
                   processQueueCall, scanner>>

\* ------------------------------------------------------------ client session
Init ==
    /\ \E onLine \in BOOLEAN : state = InitLoaded(InitialState(onLine), EmptyDb)
    /\ encryptionKeyPair = Null
    /\ signingKeyPair = Null
    /\ db = EmptyDb
    /\ processingRef = FALSE
    /\ drains = <<>>
    /\ drainsSinceOnline = 0
    /\ sends = <<>>
    /\ loads = <<>>
    /\ scanTimers = 0
    /\ pending_messages = <<>>
    /\ now = 0
    /\ request = Null
    /\ response = NoResponse
    /\ sendMessageResult = "none"
    /\ channel = NoChannel
    /\ crypto = NoCrypto
    /\ enqueued = <<>>
    /\ processQueueCall = NoCall
    /\ scanner = NoScanner

ContactIds == {state.contacts[i].id : i \in 1..Len(state.contacts)}

Next ==
    \/ handleOnline
    \/ handleOffline
    \/ \E k \in LocalKeyPairs, n \in DisplayNames : createIdentity(k, n)
    \/ \E k \in ContactKeyPairs, n \in DisplayNames : addContact(k, n)
    \/ \E c \in ContactIds \cup {Null} : selectContact(c)
    \/ \E i \in 1..Len(loads) : selectContactRead(i)
    \/ \E i \in 1..Len(loads) : selectContactSet(i)
    \/ \E t \in Contents, id \in 1..MaxUuid : sendMessage(t, id)
    \/ \E i \in 1..Len(sends) : sendMessageSave(i)
    \/ \E i \in 1..Len(sends) : sendMessageSetMessages(i)
    \/ \E i \in 1..Len(sends) : sendMessageQueue(i)
    \/ \E i \in 1..Len(sends) : sendMessageSetQueued(i)
    \/ \E d \in 1..Len(drains) : processQueueRelayed(d)
    \/ \E d \in 1..Len(drains) : processQueueFailed(d)
    \/ \E onLine \in BOOLEAN : Restart(onLine)

Spec == Init /\ [][Next]_vars

\* What runs by itself once started: the continuations of sendMessage and
\* selectContact after their awaits, and the relay answering a drain's POST
\* (strongly fair for the answer being a success: the relay is assumed not to
\* fail for ever).  User and network events have no fairness.
Fairness ==
    /\ WF_vars(\E i \in 1..Len(sends) : sendMessageSave(i))
    /\ WF_vars(\E i \in 1..Len(sends) : sendMessageSetMessages(i))
    /\ WF_vars(\E i \in 1..Len(sends) : sendMessageQueue(i))
    /\ WF_vars(\E i \in 1..Len(sends) : sendMessageSetQueued(i))
    /\ WF_vars(\E i \in 1..Len(loads) : selectContactRead(i))
    /\ WF_vars(\E i \in 1..Len(loads) : selectContactSet(i))
    /\ SF_vars(\E d \in 1..Len(drains) : processQueueRelayed(d))

FairSpec == Spec /\ Fairness

\* ------------------------------------------- connectivity and discovery
ScanNext ==
    \/ handleOnline
    \/ handleOffline
    \/ \E k \in LocalKeyPairs, n \in DisplayNames : createIdentity(k, n)
    \/ \E k \in ContactKeyPairs, n \in DisplayNames : addContact(k, n)
    \/ \E c \in ContactIds \cup {Null} : selectContact(c)
    \/ \E i \in 1..Len(loads) : selectContactRead(i)
    \/ \E i \in 1..Len(loads) : selectContactSet(i)
    \/ startP2PScan
    \/ startP2PScanTimeout
    \/ stopP2PScan
    \/ \E onLine \in BOOLEAN : Restart(onLine)

ScanSpec == Init /\ [][ScanNext]_vars

\* ------------------------------------- the session with the hook's relay calls
SessionNext ==
    \/ handleOnline
    \/ handleOffline
    \/ \E k \in LocalKeyPairs, n \in DisplayNames : createIdentity(k, n)
    \/ \E k \in ContactKeyPairs, n \in DisplayNames : addContact(k, n)
    \/ \E c \in ContactIds : selectContact(c)
    \/ \E i \in 1..Len(loads) : selectContactRead(i)
    \/ \E i \in 1..Len(loads) : selectContactSet(i)
    \/ \E t \in Contents, id \in 1..MaxUuid : sendMessage(t, id)
    \/ \E i \in 1..Len(sends) : sendMessageSave(i)
    \/ \E i \in 1..Len(sends) : sendMessageSetMessages(i)
    \/ \E i \in 1..Len(sends) : sendMessageQueue(i)
    \/ \E i \in 1..Len(sends) : sendMessageSetQueued(i)
    \/ \E d \in 1..Len(drains) : processQueueRelayed(d)
    \/ \E d \in 1..Len(drains) : processQueueFailed(d)
    \/ \E ok \in BOOLEAN : fetchPendingMessages(ok)
    \/ \E id \in 1..Len(pending_messages), ok \in BOOLEAN : acknowledgeMessage(id, ok)

SessionSpec == Init /\ [][SessionNext]_vars

FairSessionSpec == SessionSpec /\ Fairness

\* --------------------- the context called by any consumer, with local failures
\* Connectivity is the one the provider mounted with (it is read again when the
\* app is opened again); contactId is any string.
UnknownContactId == generateIdentityId(exportPublicKey(3, "ECDH"))

CallerNext ==
    \/ \E k \in LocalKeyPairs, n \in DisplayNames : createIdentity(k, n)
    \/ \E k \in ContactKeyPairs, n \in DisplayNames : addContact(k, n)
    \/ \E c \in ContactIds \cup {UnknownContactId, Null} : selectContact(c)
    \/ \E i \in 1..Len(loads) : selectContactRead(i)
    \/ \E i \in 1..Len(loads) : selectContactSet(i)
    \/ \E t \in Contents, id \in 1..MaxUuid : sendMessage(t, id)
    \/ sendMessageReturns
    \/ sendMessageThrows
    \/ \E i \in 1..Len(sends) : sendMessageSave(i)
    \/ \E i \in 1..Len(sends) : sendMessageSaveFails(i)
    \/ \E i \in 1..Len(sends) : sendMessageSetMessages(i)
    \/ \E i \in 1..Len(sends) : sendMessageQueue(i)
    \/ \E i \in 1..Len(sends) : sendMessageQueueFails(i)
    \/ \E i \in 1..Len(sends) : sendMessageSetQueued(i)
    \/ \E onLine \in BOOLEAN : Restart(onLine)

CallerSpec == Init /\ [][CallerNext]_vars

\* ------------------------------------------------ the storage module alone
Statuses == {"pending", "sent", "delivered", "read", "failed"}

StoreContactId == generateIdentityId(exportPublicKey(1, "ECDH"))

\* the Message records a caller may hand to saveMessage
StoreMessages ==
    {NewMessage(id, StoreContactId, PlainText(Hi),
                encryptMessage(PlainText(Hi), PrivateKey(3, "ECDH"), exportPublicKey(1, "ECDH"), id),
                EmptyString, 0, online) : id \in 1..MaxUuid, online \in BOOLEAN}

StoreContact == [id |-> StoreContactId, publicKey |-> exportPublicKey(1, "ECDH")]

storeSaveMessage(message) ==
    /\ db' = saveMessage(db, message)
    /\ UNCHANGED <<state, encryptionKeyPair, signingKeyPair, processingRef, drains,
                   drainsSinceOnline, sends, loads, scanTimers, pending_messages, now, request,
                   response, sendMessageResult, channel, crypto, enqueued, processQueueCall,
                   scanner>>

storeUpdateMessageStatus(id, status) ==
    /\ db' = updateMessageStatus(db, id, status)
    /\ UNCHANGED <<state, encryptionKeyPair, signingKeyPair, processingRef, drains,
                   drainsSinceOnline, sends, loads, scanTimers, pending_messages, now, request,
                   response, sendMessageResult, channel, crypto, enqueued, processQueueCall,
                   scanner>>

storeQueueMessage(message) ==
    /\ db' = queueMessage(db, NewQueuedMessage(message, StoreContact))
    /\ UNCHANGED <<state, encryptionKeyPair, signingKeyPair, processingRef, drains,
                   drainsSinceOnline, sends, loads, scanTimers, pending_messages, now, request,
                   response, sendMessageResult, channel, crypto, enqueued, processQueueCall,
                   scanner>>

storeRemoveFromQueue(id) ==
    /\ db' = removeFromQueue(db, id)
    /\ UNCHANGED <<state, encryptionKeyPair, signingKeyPair, processingRef, drains,
                   drainsSinceOnline, sends, loads, scanTimers, pending_messages, now, request,
                   response, sendMessageResult, channel, crypto, enqueued, processQueueCall,
                   scanner>>

StoreNext ==
    \/ \E m \in StoreMessages : storeSaveMessage(m)
    \/ \E id \in 1..MaxUuid, status \in Statuses : storeUpdateMessageStatus(id, status)
    \/ \E m \in StoreMessages : storeQueueMessage(m)
    \/ \E id \in 1..MaxUuid : storeRemoveFromQueue(id)

StoreInit == Init /\ state.isOnline

StoreSpec == StoreInit /\ [][StoreNext]_vars

\* ---------------------------------------------- the relay edge function alone
\* Requests reach the function at distinct instants: each one is handled at
\* `now` and the clock has moved on by the time of the next.
RelayKeys == {exportPublicKey(1, "ECDH"), exportPublicKey(2, "ECDH")}

RelayCipher == encryptMessage(PlainText(Hi), PrivateKey(3, "ECDH"), exportPublicKey(1, "ECDH"), 1)

RelayValidBody(r) ==
    [action |-> "send", senderPublicKey |-> exportPublicKey(3, "ECDH"), recipientPublicKey |-> r,
     encryptedContent |-> RelayCipher.encrypted, iv |-> RelayCipher.iv, signature |-> Null]

\* well-formed bodies, and bodies with one required field empty
RelaySendBodies ==
    {RelayValidBody(r) : r \in RelayKeys}
    \cup {[RelayValidBody(exportPublicKey(1, "ECDH")) EXCEPT ![f] = EmptyString] :
            f \in {"senderPublicKey", "recipientPublicKey", "encryptedContent", "iv"}}

\* (the reply is kept with the instant the request was handled at)
Reply(req, res) ==
    /\ request' = req
    /\ response' = [at |-> now] @@ res
    /\ now' = now + 1
    /\ now < MaxNow
    /\ UNCHANGED <<state, encryptionKeyPair, signingKeyPair, db, processingRef, drains,
                   drainsSinceOnline, sends, loads, scanTimers, sendMessageResult, crypto,
                   enqueued, processQueueCall, scanner>>

\* case "send" (insertFails: the insert returns an error)
relaySend(body, insertFails) ==
    IF ~RelaySendValid(body)
    THEN /\ Reply(body, [status |-> 400, error |-> "Missing required fields"])
         /\ UNCHANGED <<pending_messages, channel>>
    ELSE IF insertFails
    THEN /\ Reply(body, [status |-> 500, error |-> "Failed to store message"])
         /\ UNCHANGED <<pending_messages, channel>>
    ELSE /\ Len(pending_messages) < MaxEnvelopes
         /\ pending_messages' = Append(pending_messages, NewEnvelope(pending_messages, body, now))
         /\ channel' = Publish(NewEnvelope(pending_messages, body, now))
         /\ Reply(body, [status |-> 200, success |-> TRUE, messageId |-> Len(pending_messages) + 1])

\* case "fetch"
relayFetch(body) ==
    /\ IF Missing(body.recipientPublicKey)
       THEN Reply(body, [status |-> 400, error |-> "Missing recipientPublicKey"])
       ELSE Reply(body, [status |-> 200,
                         messages |-> RelayFetchRows(pending_messages, body.recipientPublicKey, now)])
    /\ UNCHANGED <<pending_messages, channel>>

\* case "acknowledge" (messageId 0 stands for a missing one; an id of no row updates nothing)
relayAcknowledge(body) ==
    IF body.messageId = 0
    THEN /\ Reply(body, [status |-> 400, error |-> "Missing messageId"])
         /\ UNCHANGED <<pending_messages, channel>>
    ELSE /\ pending_messages' = RelayAcknowledgeRows(pending_messages, body.messageId, now)
         /\ UNCHANGED channel
         /\ Reply(body, [status |-> 200, success |-> TRUE])

\* default
relayUnknownAction ==
    /\ Reply([action |-> "other"], [status |-> 400, error |-> "Unknown action"])
    /\ UNCHANGED <<pending_messages, channel>>

\* a week goes by with no request
relayWeekPasses ==
    /\ now + ExpiryDays <= MaxNow
    /\ now' = now + ExpiryDays
    /\ UNCHANGED <<state, encryptionKeyPair, signingKeyPair, db, processingRef, drains,
                   drainsSinceOnline, sends, loads, scanTimers, pending_messages, request,
                   response, sendMessageResult, channel, crypto, enqueued, processQueueCall,
                   scanner>>

RelayNext ==
    \/ \E body \in RelaySendBodies, insertFails \in BOOLEAN : relaySend(body, insertFails)
    \/ \E r \in RelayKeys \cup {EmptyString} :
            relayFetch([action |-> "fetch", recipientPublicKey |-> r])
    \/ \E id \in 0..(Len(pending_messages) + 1) :
            relayAcknowledge([action |-> "acknowledge", messageId |-> id])
    \/ relayUnknownAction
    \/ relayWeekPasses

RelayInit == Init /\ state.isOnline

RelaySpec == RelayInit /\ [][RelayNext]_vars

\* ------------------------------------------- the encryption module alone
\* A caller seals a plaintext for a recipient and then opens a ciphertext:
\* the one it got or one modified on the way, with the iv and keys it got or
\* others.
\* 'h', e-acute, the euro sign, U+FEFF, and the two halves of U+1F600
CodeUnits == {104, 233, 8364, 65279, 55357, 56832}

Plaintexts == UNION {[1..n -> CodeUnits] : n \in 0..MaxLen}

Ivs == {1, 2}

FlipBit(byte, k) == IF (byte \div (2 ^ k)) % 2 = 1 THEN byte - (2 ^ k) ELSE byte + (2 ^ k)

\* bits of the last base64 character that carry no data: 4 when one byte is
\* left over after the groups of three, 2 when two are
SlackBits(text) ==
    LET left == (Len(text.sealed) + TagBytes) % 3
    IN  IF left = 1 THEN 4 ELSE IF left = 2 THEN 2 ELSE 0

\* a ciphertext text with one bit flipped: in a byte of the body, in the tag,
\* or among the slack bits of the last character
ModifiedCiphertexts(text) ==
    {[text EXCEPT !.sealed = [@ EXCEPT ![i] = FlipBit(@, k)]] :
        i \in 1..Len(text.sealed), k \in {0, 7}}
    \cup {[text EXCEPT !.tag = Append(@, "flipped")]}
    \cup {[text EXCEPT !.slack = 2 ^ k] : k \in 0..(SlackBits(text) - 1)}

ModifiedIvs(iv) == {[iv EXCEPT !.n = n] : n \in Ivs \ {iv.n}}

cryptoEncrypt(m, a, b, iv) ==
    /\ crypto.pc = "idle"
    /\ crypto' = [pc |-> "encrypted", message |-> m, sender |-> a, recipient |-> b,
                  sealed |-> encryptMessage(PlainText(m), PrivateKey(a, "ECDH"),
                                            exportPublicKey(b, "ECDH"), iv)]
    /\ UNCHANGED <<state, encryptionKeyPair, signingKeyPair, db, processingRef, drains,
                   drainsSinceOnline, sends, loads, scanTimers, pending_messages, now, request,
                   response, sendMessageResult, channel, enqueued, processQueueCall, scanner>>

cryptoDecrypt(encrypted, iv, r, s) ==
    /\ crypto.pc = "encrypted"
    /\ crypto' = [crypto EXCEPT !.pc = "decrypted"] @@
                 [given |-> [encrypted |-> encrypted, iv |-> iv, recipient |-> r, sender |-> s],
                  result |-> decryptMessage(encrypted, iv, PrivateKey(r, "ECDH"),
                                            exportPublicKey(s, "ECDH"))]
    /\ UNCHANGED <<state, encryptionKeyPair, signingKeyPair, db, processingRef, drains,
                   drainsSinceOnline, sends, loads, scanTimers, pending_messages, now, request,
                   response, sendMessageResult, channel, enqueued, processQueueCall, scanner>>

CryptoNext ==
    \/ \E m \in Plaintexts, a, b \in KeyPairs : cryptoEncrypt(m, a, b, 1)
    \/ /\ crypto.pc = "encrypted"
       /\ \E encrypted \in {crypto.sealed.encrypted} \cup ModifiedCiphertexts(crypto.sealed.encrypted),
             iv \in {crypto.sealed.iv} \cup ModifiedIvs(crypto.sealed.iv),
             r, s \in KeyPairs : cryptoDecrypt(encrypted, iv, r, s)

CryptoInit == Init /\ state.isOnline

CryptoSpec == CryptoInit /\ [][CryptoNext]_vars

\* ------------------------------------- the inbound side: peers post to the relay
\* A contact (key pair 1) posts envelopes for this device (key pair 3): one
\* well formed, one signed with another key, one sealed for another recipient.
InboundCipher(recipient, iv) ==
    encryptMessage(PlainText(Hi), PrivateKey(1, "ECDH"), exportPublicKey(recipient, "ECDH"), iv)

InboundBody(sealed, signer) ==
    [action |-> "send", senderPublicKey |-> exportPublicKey(1, "ECDH"),
     recipientPublicKey |-> exportPublicKey(3, "ECDH"),
     encryptedContent |-> sealed.encrypted, iv |-> sealed.iv,
     signature |-> signMessage(sealed.encrypted, PrivateKey(signer, "ECDSA"))]

InboundBodies ==
    {InboundBody(InboundCipher(3, 1), 1), InboundBody(InboundCipher(3, 2), 2),
     InboundBody(InboundCipher(2, 3), 1)}

InboundNext ==
    \/ \E k \in LocalKeyPairs, n \in DisplayNames : createIdentity(k, n)
    \/ \E k \in ContactKeyPairs, n \in DisplayNames : addContact(k, n)
    \/ \E body \in InboundBodies : relaySend(body, FALSE)
    \/ onPostgresChanges
    \/ \E ok \in BOOLEAN : fetchPendingMessages(ok)

InboundSpec == Init /\ [][InboundNext]_vars

\* the realtime service delivers every payload it has published
InboundFairSpec == InboundSpec /\ Fairness /\ WF_vars(onPostgresChanges)

\* ====================================================================
\* The claims
\* ====================================================================
Outgoing == {m \in db.messages : m.direction = "sent"}

Carries(e, m) == e.encrypted_content = m.encrypted /\ e.iv = m.iv

EnvelopesOf(m) == {i \in 1..Len(pending_messages) : Carries(pending_messages[i], m)}

Relayed(id) == \E m \in Outgoing : m.id = id /\ EnvelopesOf(m) # {}

QueuedIds == {state.queuedMessages[i].id : i \in 1..Len(state.queuedMessages)}

Quiescent == sends = <<>> /\ drains = <<>>

\* C1: no duplication -- each outgoing Message is stored by the relay at most
\* once: no message has two envelopes in pending_messages.
C1_NoDuplicateEnvelope == \A m \in Outgoing : Cardinality(EnvelopesOf(m)) <= 1

\* C2: no loss -- if the device ends up online for good (and, by FairSpec, the
\* continuations run and the relay does not fail for ever), every outgoing
\* message that sendMessage has persisted is eventually stored by the relay.
C2_NoLoss ==
    (<>[](state.isOnline)) =>
        \A id \in 1..MaxUuid : []((id \in Ids(Outgoing)) => <>Relayed(id))

\* C3: queue invariant -- with no send and no drain in progress, the queued ids
\* are exactly the ids of the pending outgoing messages whose relay submission
\* is not confirmed, in the store and in memory, and no id is queued twice.
C3_QueueIsPendingUnconfirmed ==
    Quiescent =>
        /\ Ids(db.messageQueue) =
              {m.id : m \in {o \in Outgoing : o.status = "pending" /\ EnvelopesOf(o) = {}}}
        /\ QueuedIds = Ids(db.messageQueue)
        /\ Len(state.queuedMessages) = Cardinality(QueuedIds)

\* C4: a successful relay submit of a queued item during a drain removes its
\* QueuedMessage (store and memory) and turns its Message from pending to sent.
C4_SubmitDequeuesAndMarksSent ==
    [][\A d \in 1..Len(drains) :
         processQueueRelayed(d) =>
            LET id == drains[d].items[drains[d].i].id
            IN  /\ id \notin Ids(db'.messageQueue)
                /\ id \notin {state'.queuedMessages[i].id : i \in 1..Len(state'.queuedMessages)}
                /\ \A m \in db'.messages : m.id = id => m.status = "sent"]_vars

\* the order of §3: pending -> sent -> delivered -> read, failed from pending or sent
StatusRank(status) ==
    CASE status = "pending" -> 0 [] status = "sent" -> 1 [] status = "delivered" -> 2
      [] status = "read" -> 3 [] OTHER -> 4

StatusMayBecome(old, new) ==
    \/ new = old
    \/ new = "failed" /\ old \in {"pending", "sent"}
    \/ new # "failed" /\ old # "failed" /\ StatusRank(new) > StatusRank(old)

\* C5: message status never regresses -- an updateMessageStatus call leaves the
\* stored status where it was or moves it forward in the order of §3.
C5_StatusNeverRegresses ==
    [][\A id \in 1..MaxUuid, status \in Statuses :
         storeUpdateMessageStatus(id, status) =>
            \A old \in db.messages, new \in db'.messages :
                old.id = new.id => StatusMayBecome(old.status, new.status)]_vars

\* the table of connection modes
ConnectionModeOf(isOnline, isP2PScanning) ==
    IF isOnline THEN (IF isP2PScanning THEN "hybrid" ELSE "online")
    ELSE (IF isP2PScanning THEN "p2p" ELSE "offline")

\* C6: in every reachable state, the initial one included, connectionMode is
\* the table's function of (isOnline, isP2PScanning).
C6_ModeIsFunctionOfInputs ==
    state.connectionMode = ConnectionModeOf(state.isOnline, state.isP2PScanning)

\* C7: a step in which isOnline becomes true with messages queued (and no drain
\* running) enters the drain loop; a loop submits its items one by one, each
\* once; and no second loop is entered before isOnline becomes true again.
C7_OneDrainPerTransition ==
    /\ [](drainsSinceOnline <= 1)
    /\ [][(/\ ~state.isOnline /\ state'.isOnline /\ ~processingRef
            /\ state'.identity # Null /\ Len(state'.queuedMessages) > 0)
              => drainsSinceOnline' = 1]_vars
    /\ [][\A d \in 1..Len(drains) :
            (processQueueRelayed(d) \/ processQueueFailed(d)) =>
                \/ drains[d].i = Len(drains[d].items) /\ Len(drains') = Len(drains) - 1
                \/ drains'[d].i = drains[d].i + 1]_vars

\* C8: a sendMessage invoked while offline ends with the Message persisted as
\* pending and exactly one QueuedMessage (store and memory) with its id, the
\* contact's public key, its ciphertext, iv and signature, and attempts = 0.
C8_OfflineSendQueuesOnce ==
    [][\A s \in 1..Len(sends) :
         sendMessageSetQueued(s) =>
            LET m == sends[s].message
                inStore == {q \in db'.messageQueue : q.id = m.id}
                inMemory == {i \in 1..Len(state'.queuedMessages) :
                                state'.queuedMessages[i].id = m.id}
                expected == [id |-> m.id, recipientId |-> m.contactId,
                             recipientPublicKey |-> sends[s].contact.publicKey,
                             encrypted |-> m.encrypted, iv |-> m.iv, signature |-> m.signature,
                             timestamp |-> m.timestamp, attempts |-> 0]
            IN  /\ ~sends[s].isOnline
                /\ m \in db'.messages /\ m.status = "pending"
                /\ Cardinality({o \in db'.messages : o.id = m.id}) = 1
                /\ inStore = {expected}
                /\ Cardinality(inMemory) = 1
                /\ \A i \in inMemory : state'.queuedMessages[i] = expected]_vars

C8_Witness ==
    /\ sends = <<>>
    /\ \E m \in Outgoing : m.status = "pending" /\ m.id \in Ids(db.messageQueue) \cap QueuedIds

\* what may leave the device
IsCiphertextOnly(body) ==
    CASE body.action = "send" ->
            /\ body.senderPublicKey.kind = "publicKey"
            /\ body.recipientPublicKey.kind = "publicKey"
            /\ body.encryptedContent.kind = "ciphertext"
            /\ body.iv.kind = "iv"
            /\ body.signature.kind \in {"signature", "empty"}
      [] body.action = "fetch" -> body.recipientPublicKey.kind = "publicKey"
      [] body.action = "acknowledge" -> body.messageId \in 1..MaxEnvelopes
      [] OTHER -> FALSE

QueuedIsCiphertextOnly(q) ==
    /\ DOMAIN q = {"id", "recipientId", "recipientPublicKey", "encrypted", "iv", "signature",
                   "timestamp", "attempts"}
    /\ q.recipientId.kind = "id"
    /\ q.recipientPublicKey.kind = "publicKey"
    /\ q.encrypted.kind = "ciphertext"
    /\ q.iv.kind = "iv"
    /\ q.signature.kind \in {"signature", "empty"}

\* C9: the relay sees only ciphertext -- every request body the client posts
\* (send, fetch, acknowledge) and every QueuedMessage holds public keys,
\* ciphertext, iv, signature and ids only: no plaintext, no private key.
C9_RelaySeesOnlyCiphertext ==
    /\ request # Null => IsCiphertextOnly(request)
    /\ \A q \in db.messageQueue : QueuedIsCiphertextOnly(q)
    /\ \A i \in 1..Len(state.queuedMessages) : QueuedIsCiphertextOnly(state.queuedMessages[i])
    /\ \A d \in 1..Len(drains) : \A i \in 1..Len(drains[d].items) :
            QueuedIsCiphertextOnly(drains[d].items[i])

C9_Witness ==
    /\ request # Null /\ request.action = "send"
    /\ db.messageQueue # {}
    /\ \E m \in db.messages : m.content.kind = "plaintext"

\* C10: a fetch answers exactly the stored envelopes of the recipient that are
\* not delivered and whose expires_at has not passed.
C10_FetchReturnsLiveEnvelopes ==
    (request # Null /\ request.action = "fetch" /\ response.status = 200) =>
        \A i \in 1..Len(pending_messages) :
            (\E j \in 1..Len(response.messages) : response.messages[j] = pending_messages[i])
            <=> /\ pending_messages[i].recipient_public_key = request.recipientPublicKey
                /\ pending_messages[i].delivered_at = NoTime
                /\ pending_messages[i].expires_at >= response.at

C12_InvalidRequestsRejected ==
    [][/\ \A body \in RelaySendBodies, insertFails \in BOOLEAN :
            relaySend(body, insertFails) =>
                IF \E f \in {"senderPublicKey", "recipientPublicKey", "encryptedContent", "iv"} :
                        body[f] \in {Null, EmptyString}
                THEN response'.status = 400 /\ pending_messages' = pending_messages
                ELSE IF insertFails
                THEN response'.status = 500 /\ pending_messages' = pending_messages
                ELSE /\ response'.status = 200
                     /\ Len(pending_messages') = Len(pending_messages) + 1
                     /\ SubSeq(pending_messages', 1, Len(pending_messages)) = pending_messages
                     /\ LET row == pending_messages'[Len(pending_messages')]
                        IN  /\ row.id = response'.messageId
                            /\ \A i \in 1..Len(pending_messages) : pending_messages[i].id # row.id
                            /\ row.sender_public_key = body.senderPublicKey
                            /\ row.recipient_public_key = body.recipientPublicKey
                            /\ row.encrypted_content = body.encryptedContent
                            /\ row.iv = body.iv
       /\ relayFetch([action |-> "fetch", recipientPublicKey |-> EmptyString]) =>
            response'.status = 400 /\ pending_messages' = pending_messages
       /\ relayAcknowledge([action |-> "acknowledge", messageId |-> 0]) =>
            response'.status = 400 /\ pending_messages' = pending_messages
       /\ relayUnknownAction =>
            response'.status = 400 /\ pending_messages' = pending_messages]_vars

C12_Witness ==
    /\ request # Null /\ request.action = "send" /\ request.iv = EmptyString
    /\ response.status = 400
    /\ Len(pending_messages) = 1

\* what any fetch, for any recipient at any instant, would answer
FetchVisible(table) ==
    [r \in RelayKeys, t \in 0..(MaxNow + 1) |-> RelayFetchRows(table, r, t)]

C14_NoDuplicateContact ==
    /\ \A c, d \in db.contacts : c.publicKey = d.publicKey => c = d
    /\ \A i, j \in 1..Len(state.contacts) :
            state.contacts[i].publicKey = state.contacts[j].publicKey => i = j

IdentityKeys(identity) ==
    <<identity.id, identity.encryptionPublicKey, identity.encryptionPrivateKey,
      identity.signingPublicKey, identity.signingPrivateKey>>

\* C15: one stable identity -- the stored identity's id is generateIdentityId
\* of its exported encryption public key, the identity in memory and the key
\* pairs in memory (when loaded) are those of the stored one, and once an
\* identity is stored no step changes its id or keys.
C15_IdentityStable ==
    /\ [](db.identity # Null =>
            /\ db.identity.id = generateIdentityId(db.identity.encryptionPublicKey)
            /\ state.identity # Null
            /\ state.identity.id = db.identity.id
            /\ state.identity.publicKey = db.identity.encryptionPublicKey
            /\ state.identity.signingPublicKey = db.identity.signingPublicKey
            /\ encryptionKeyPair # Null =>
                    /\ encryptionKeyPair.publicKey = db.identity.encryptionPublicKey
                    /\ encryptionKeyPair.privateKey = db.identity.encryptionPrivateKey
            /\ signingKeyPair # Null =>
                    /\ signingKeyPair.publicKey = db.identity.signingPublicKey
                    /\ signingKeyPair.privateKey = db.identity.signingPrivateKey)
    /\ [](db.identity = Null => state.identity = Null /\ encryptionKeyPair = Null)
    /\ [][db.identity # Null =>
            /\ db'.identity # Null
            /\ IdentityKeys(db'.identity) = IdentityKeys(db.identity)]_vars

C15_Witness ==
    /\ db.identity # Null /\ state.identity # Null
    /\ encryptionKeyPair = Null
    /\ db.messages # {}

\* C16: a sendMessage whose active contact is not in the contact list fails
\* with an error the caller observes (the promise rejects) and persists
\* neither a Message nor a QueuedMessage.
C16_UnknownContactRejected ==
    [][(/\ sendMessageReturns
        /\ state.activeContactId # Null /\ state.identity # Null /\ encryptionKeyPair # Null
        /\ FindContact(state.contacts, state.activeContactId) = Null)
          => /\ sendMessageResult' = "rejected"
             /\ db'.messages = db.messages /\ db'.messageQueue = db.messageQueue]_vars

\* ids of the messages in state.messages
InMemoryIds ==
    UNION {{state.messages[c].list[i].id : i \in 1..Len(state.messages[c].list)} :
            c \in 1..Len(state.messages)}

\* C17: a crypto or storage failure in sendMessage is surfaced to the caller
\* (the promise rejects), changes nothing persisted before, and leaves no
\* partial record of the failed message: it is in the messages store only with
\* its QueuedMessage, and in memory only if persisted.
C17_SendFailureSurfacedAndAtomic ==
    [][/\ sendMessageThrows => sendMessageResult' = "rejected" /\ db' = db /\ state' = state
       /\ \A i \in 1..Len(sends) :
            (sendMessageSaveFails(i) \/ sendMessageQueueFails(i)) =>
                LET id == sends[i].message.id
                IN  /\ sendMessageResult' = "rejected"
                    /\ db' = db
                    /\ id \in Ids(db'.messages) <=> id \in Ids(db'.messageQueue)
                    /\ id \in InMemoryIds' => id \in Ids(db'.messages)]_vars

\* C18: the drain is reentrancy-guarded -- at no time are two processQueue
\* loops running, and processingRef is set exactly while one is running (it
\* is released when the loop ends, whatever the submits answered).
C18_DrainReentrancyGuarded ==
    /\ Len(drains) <= 1
    /\ processingRef <=> drains # <<>>

\* a trigger arrived while the loop was running: the queue has grown since
C18_Witness ==
    /\ Len(drains) = 1 /\ processingRef /\ state.isOnline
    /\ Len(state.queuedMessages) > Len(drains[1].items)

\* the POST the loop makes for item i of drain d
PostsItem(d) ==
    LET item == drains[d].items[drains[d].i]
    IN  /\ request'.action = "send"
        /\ request'.recipientPublicKey = item.recipientPublicKey
        /\ request'.encryptedContent = item.encrypted
        /\ request'.iv = item.iv

\* C19: the drain continues on error -- a failed submit for one item moves the
\* loop to the next item (each item of the drain gets its own POST), and after
\* the last item the loop ends with processingRef cleared.
C19_DrainContinuesOnError ==
    [][\A d \in 1..Len(drains) :
        /\ (processQueueRelayed(d) \/ processQueueFailed(d)) => PostsItem(d)
        /\ processQueueFailed(d) =>
              IF drains[d].i < Len(drains[d].items)
              THEN /\ drains' = [drains EXCEPT ![d] = [@ EXCEPT !.i = drains[d].i + 1]]
                   /\ processingRef'
              ELSE /\ drains' = RemoveAt(drains, d)
                   /\ ~processingRef']_vars

\* a drain over two items has ended with the first refused and the second stored
C19_Witness ==
    /\ drains = <<>> /\ ~processingRef
    /\ Len(state.queuedMessages) = 2
    /\ \A i \in 1..Len(pending_messages) :
            pending_messages[i].iv # state.queuedMessages[1].iv
    /\ \E i \in 1..Len(pending_messages) :
            pending_messages[i].iv = state.queuedMessages[2].iv

\* an envelope of a known contact whose signature verifies and which decrypts
EnvelopeIsGood(e) ==
    /\ db.identity # Null
    /\ \E i \in 1..Len(state.contacts) :
            /\ state.contacts[i].publicKey = e.sender_public_key
            /\ verifySignature(e.encrypted_content, e.signature,
                               state.contacts[i].signingPublicKey)
            /\ decryptMessage(e.encrypted_content, e.iv, db.identity.encryptionPrivateKey,
                              e.sender_public_key) # OperationError

FetchedEnvelopes ==
    IF request # Null /\ request.action = "fetch" /\ response.status = 200
    THEN {response.messages[j] : j \in 1..Len(response.messages)}
    ELSE {}

Received == {m \in db.messages : m.direction = "received"}

\* C20: of a fetched batch, an envelope whose signature does not verify or
\* which does not decrypt is discarded (no received Message, no acknowledge),
\* and the other envelopes of the batch are still processed: a fetch that
\* returned a good envelope next to a bad one leads to a received Message of
\* the good one, and never to one of the bad one.
C20_BadEnvelopeDiscardedOthersProcessed ==
    /\ [](\A m \in Received :
            \A i \in 1..Len(pending_messages) :
                Carries(pending_messages[i], m) => EnvelopeIsGood(pending_messages[i]))
    /\ []((\E good, bad \in FetchedEnvelopes : EnvelopeIsGood(good) /\ ~EnvelopeIsGood(bad))
           => <>(Received # {}))

\* C21: a realtime notification of a new envelope for the local identity's
\* public key is followed by a relay fetch for that identity (the request after
\* a notification is eventually a fetch with recipientPublicKey =
\* identity.publicKey), and the payload is not the data path: the callback
\* puts nothing of it into the stores or the state.
C21_NotificationTriggersFetch ==
    /\ [][onPostgresChanges => db' = db /\ state' = state]_vars
    /\ [](channel.toasts > 0 =>
            <>(/\ request # Null /\ request.action = "fetch"
               /\ state.identity # Null
               /\ request.recipientPublicKey = state.identity.publicKey))

\* the caller opens what it was given, as the recipient, with the sender's key
OpenedAsSealed ==
    /\ crypto.pc = "decrypted"
    /\ crypto.given.encrypted = crypto.sealed.encrypted
    /\ crypto.given.iv = crypto.sealed.iv
    /\ crypto.given.recipient = crypto.recipient
    /\ crypto.given.sender = crypto.sender

\* a string with no surrogate on its own
IsWellFormed(units) == ToCodeUnits(ToScalarValues(units)) = units

\* C22: encryption round trip -- for every plaintext m and key pairs A and B,
\* decryptMessage(encryptMessage(m, A.private, B.public), B.private, A.public)
\* returns m (stated here for the plaintexts that are well-formed Unicode
\* strings; a string with a surrogate on its own does not come back either).
C22_EncryptionRoundTrip ==
    (OpenedAsSealed /\ IsWellFormed(crypto.message)) =>
        crypto.result = PlainText(crypto.message)

\* the AES key a decrypt call derives, and the one the encrypt call derived
GivenKey ==
    deriveSharedKey(PrivateKey(crypto.given.recipient, "ECDH"),
                    exportPublicKey(crypto.given.sender, "ECDH"))

SealedKey ==
    deriveSharedKey(PrivateKey(crypto.sender, "ECDH"), exportPublicKey(crypto.recipient, "ECDH"))

EnqueuedAt(id) == CHOOSE k \in 1..Len(enqueued) : enqueued[k] = id

\* C24: a drain attempts the queued messages in insertion order -- in every
\* drain, also one whose queue was loaded from the messageQueue store by
\* init() after a restart, an item enqueued earlier is submitted before one
\* enqueued later (the loop submits its items from the first to the last).
C24_DrainInInsertionOrder ==
    \A d \in 1..Len(drains) : \A i, j \in 1..Len(drains[d].items) :
        i < j => EnqueuedAt(drains[d].items[i].id) < EnqueuedAt(drains[d].items[j].id)

\* C25: each failed relay submit of a queued message during a drain adds one
\* to that QueuedMessage's attempts and records lastAttempt (in the store),
\* and no step lowers the attempts of a QueuedMessage.
C25_FailedSubmitCountsAttempt ==
    /\ [][\A d \in 1..Len(drains) :
            processQueueFailed(d) =>
                \A q \in db.messageQueue :
                    q.id = drains[d].items[drains[d].i].id =>
                        \E r \in db'.messageQueue :
                            /\ r.id = q.id
                            /\ r.attempts = q.attempts + 1
                            /\ "lastAttempt" \in DOMAIN r]_vars
    /\ [][\A q \in db.messageQueue, r \in db'.messageQueue :
            r.id = q.id => r.attempts >= q.attempts]_vars

\* C26: an outgoing Message has status sent only if its ciphertext was handed
\* to a transport that took it -- the relay holds an envelope with it (the
\* code has no other transport); this holds for the Messages in the store
\* and for those in state.messages.
C26_SentOnlyIfSubmitted ==
    /\ \A m \in Outgoing : m.status = "sent" => EnvelopesOf(m) # {}
    /\ \A c \in 1..Len(state.messages) : \A i \in 1..Len(state.messages[c].list) :
            state.messages[c].list[i].status = "sent" =>
                EnvelopesOf(state.messages[c].list[i]) # {}

\* C27: a send request made with an identity and a selected contact that is in
\* the contact list encrypts and persists a Message, also in a session that
\* started by loading the stored identity: sendMessage takes its silent
\* `return` only when there is no identity or no known contact selected.
C27_SendNeverSilentlyDropped ==
    [][sendMessageReturns =>
        \/ state.identity = Null
        \/ state.activeContactId = Null
        \/ FindContact(state.contacts, state.activeContactId) = Null]_vars

\* C28: trust is rooted in the full public key -- adding a contact never
\* replaces a stored contact (not even one whose public key gives the same
\* short id), and a message sent to a contact is sealed for that contact's
\* own encryption public key: for the key of every contact the active id
\* stands for.
C28_TrustRootedInPublicKey ==
    /\ [][\A k \in ContactKeyPairs, n \in DisplayNames :
            addContact(k, n) => \A c \in db.contacts : c \in db'.contacts]_vars
    /\ [][\A t \in Contents, id \in 1..MaxUuid :
            sendMessage(t, id) =>
                \A j \in 1..Len(state.contacts) :
                    state.contacts[j].id = state.activeContactId =>
                        sends'[Len(sends')].message.encrypted.key =
                            deriveSharedKey(encryptionKeyPair.privateKey,
                                            state.contacts[j].publicKey)]_vars

\* C29: acknowledge changes only delivered_at of the envelope it names -- its
\* keys, ciphertext, iv, signature, created_at, expires_at and
\* delivery_attempts, and every field of every other envelope, stay as they
\* were, and no envelope is added or removed.
C29_AcknowledgeFrame ==
    [][\A id \in 0..(MaxEnvelopes + 1) :
        relayAcknowledge([action |-> "acknowledge", messageId |-> id]) =>
            /\ Len(pending_messages') = Len(pending_messages)
            /\ \A i \in 1..Len(pending_messages) :
                IF pending_messages[i].id = id
                THEN [pending_messages'[i] EXCEPT !.delivered_at = pending_messages[i].delivered_at]
                        = pending_messages[i]
                ELSE pending_messages'[i] = pending_messages[i]]_vars

\* C30: a failed relay fetch is observable to the caller -- when the relay
\* answers a fetch with an error status, what fetchPendingMessages returns is
\* not what it returns for a successful fetch of an empty mailbox (the empty
\* list).
C30_FetchFailureObservable ==
    (/\ request # Null /\ request.action = "fetch"
     /\ "returned" \in DOMAIN response /\ response.status # 200)
        => response.returned # <<>>

\* ------------------------------------------------------------------- C31
\* C31: saving by id is idempotent. Whatever saveMessage and queueMessage calls
\* have been made, the message store holds at most one record per id and the
\* queue store holds at most one record per id: a save under a stored id
\* overwrites that record.
C31_AppendIdempotentById ==
    /\ \A a, b \in db.messages : a.id = b.id => a = b
    /\ \A a, b \in db.messageQueue : a.id = b.id => a = b

\* every id has been saved to both stores, and one record has come from a save
\* with status 'sent' and another from a save with status 'pending': from here
\* every further save is a save under a stored id
C31_Witness ==
    /\ Ids(db.messages) = 1..MaxUuid
    /\ Ids(db.messageQueue) = 1..MaxUuid
    /\ Cardinality(db.messages) = MaxUuid
    /\ Cardinality(db.messageQueue) = MaxUuid
    /\ \E m \in db.messages : m.deliveryMethod = "direct"
    /\ \E m \in db.messages : m.deliveryMethod = "store-forward"

\* ------------------------------------------------------------------- C32
\* ------------------------------------ the message log with a running clock
\* Date.now() moves on between two sends
MaxTimestamp == 2

clockAdvances ==
    /\ now < MaxTimestamp
    /\ now' = now + 1
    /\ UNCHANGED <<state, encryptionKeyPair, signingKeyPair, db, processingRef, drains,
                   drainsSinceOnline, sends, loads, scanTimers, pending_messages, request,
                   response, sendMessageResult, channel, crypto, enqueued, processQueueCall,
                   scanner>>

\* an online session: messages are sent at different times under uuids in any
\* order, and a conversation is opened from the store
LogNext ==
    \/ \E k \in LocalKeyPairs, n \in DisplayNames : createIdentity(k, n)
    \/ \E k \in ContactKeyPairs, n \in DisplayNames : addContact(k, n)
    \/ \E c \in ContactIds : selectContact(c)
    \/ \E i \in 1..Len(loads) : selectContactRead(i)
    \/ \E i \in 1..Len(loads) : selectContactSet(i)
    \/ \E t \in Contents, id \in 1..MaxUuid : sendMessage(t, id)
    \/ \E i \in 1..Len(sends) : sendMessageSave(i)
    \/ \E i \in 1..Len(sends) : sendMessageSetMessages(i)
    \/ Restart(TRUE)
    \/ clockAdvances

LogInit == Init /\ state.isOnline

LogSpec == LogInit /\ [][LogNext]_vars

\* C32: getMessagesByContact(contactId) returns the stored messages of that
\* contact in chronological order. Whatever selectContact has read from the
\* store for a contact consists of stored messages of that contact, each once,
\* and their timestamps never decrease along the list, whatever their ids are.
C32_ByContactChronological ==
    \A l \in 1..Len(loads) :
        loads[l].pc = "set" =>
            LET rows == loads[l].rows
            IN  /\ \A i \in 1..Len(rows) :
                      rows[i] \in db.messages /\ rows[i].contactId = loads[l].contactId
                /\ \A i, j \in 1..Len(rows) : i < j => rows[i].id # rows[j].id
                /\ \A i, j \in 1..Len(rows) : i < j => rows[i].timestamp <= rows[j].timestamp

\* ------------------------------------------------------------------- C33
\* ------------------------------- the realtime subscription of useMessageRelay
\* the component that calls useMessageRelay goes away: the cleanup of the
\* subscription effect runs
hookUnmount ==
    /\ channel.mounted
    /\ channel' = [SubscriptionEffect(channel, state.identity, Null) EXCEPT !.mounted = FALSE]
    /\ UNCHANGED <<state, encryptionKeyPair, signingKeyPair, db, processingRef, drains,
                   drainsSinceOnline, sends, loads, scanTimers, pending_messages, now, request,
                   response, sendMessageResult, crypto, enqueued, processQueueCall, scanner>>

\* ... and is rendered again: a new processingRef, and both effects run
hookMount ==
    /\ ~channel.mounted
    /\ channel' = SubscriptionEffect([channel EXCEPT !.mounted = TRUE], Null, state.identity)
    /\ UNCHANGED state
    /\ IF state.isOnline /\ Len(state.queuedMessages) > 0 /\ ProcessQueueRuns(state, FALSE)
       THEN /\ processingRef' = TRUE
            /\ drains' = Append(drains, [identity |-> state.identity,
                                          items |-> state.queuedMessages, i |-> 1])
            /\ drainsSinceOnline' = DrainsCounted(TRUE)
       ELSE /\ processingRef' = FALSE
            /\ UNCHANGED drains
            /\ drainsSinceOnline' = DrainsCounted(FALSE)
    /\ UNCHANGED <<encryptionKeyPair, signingKeyPair, db, sends, loads, scanTimers,
                   pending_messages, now, request, response, sendMessageResult, crypto,
                   enqueued, processQueueCall, scanner>>

\* the identities a consumer may create one after the other
RealtimeKeyPairs == {2, 3}

RealtimeBody(k) ==
    [action |-> "send", senderPublicKey |-> exportPublicKey(1, "ECDH"),
     recipientPublicKey |-> exportPublicKey(k, "ECDH"),
     encryptedContent |-> InboundCipher(k, 1).encrypted, iv |-> InboundCipher(k, 1).iv,
     signature |-> signMessage(InboundCipher(k, 1).encrypted, PrivateKey(1, "ECDSA"))]

RealtimeBodies == {RealtimeBody(k) : k \in RealtimeKeyPairs}

RealtimeNext ==
    \/ \E k \in RealtimeKeyPairs, n \in DisplayNames : createIdentityCalled(k, n)
    \/ \E body \in RealtimeBodies : relaySend(body, FALSE)
    \/ onPostgresChanges
    \/ hookUnmount
    \/ hookMount
    \/ \E onLine \in BOOLEAN : Restart(onLine)

RealtimeSpec == Init /\ [][RealtimeNext]_vars

\* C33: tearing the hook down or changing the identity removes the realtime
\* subscription. At any time the realtime client holds at most one
\* subscription of the hook, its filter is the public key of the current
\* identity, and it holds none while the hook is not mounted.
C33_SubscriptionFollowsIdentity ==
    /\ Len(channel.subscriptions) <= 1
    /\ \A i \in 1..Len(channel.subscriptions) :
          state.identity # Null /\ channel.subscriptions[i] = state.identity.publicKey
    /\ ~channel.mounted => channel.subscriptions = <<>>

\* the hook is unmounted after a subscription of it has delivered a payload,
\* the relay holds an envelope for a key that is not the current identity's,
\* and nothing is subscribed
C33_Witness ==
    /\ ~channel.mounted
    /\ channel.toasts > 0
    /\ state.identity # Null
    /\ \E i \in 1..Len(pending_messages) :
          pending_messages[i].recipient_public_key # state.identity.publicKey
    /\ channel.subscriptions = <<>>

\* ------------------------------------------------------------------- C34
\* ------------------------------------- processQueue called by a consumer
\* processQueue as the hook returns it, called in the current render: the
\* guard, then processingRef and the loop up to its first await.  With an
\* empty queue the loop has no turn and the finally clears processingRef in
\* the same call.
processQueue ==
    /\ channel.mounted
    /\ processQueueCall' = [called |-> TRUE, isOnline |-> state.isOnline,
                            identity |-> state.identity # Null]
    /\ UNCHANGED state
    /\ IF ProcessQueueRuns(state, processingRef) /\ Len(state.queuedMessages) > 0
       THEN /\ processingRef' = TRUE
            /\ drains' = Append(drains, [identity |-> state.identity,
                                          items |-> state.queuedMessages, i |-> 1])
            /\ drainsSinceOnline' = DrainsCounted(TRUE)
       ELSE /\ UNCHANGED <<processingRef, drains>>
            /\ drainsSinceOnline' = DrainsCounted(FALSE)
    /\ UNCHANGED <<encryptionKeyPair, signingKeyPair, db, sends, loads, scanTimers,
                   pending_messages, now, request, response, sendMessageResult, channel,
                   crypto, enqueued, scanner>>

\* one contact, messages sent online and offline, the drain effect, and a
\* consumer that calls processQueue at any time
DrainNext ==
    \/ handleOnline
    \/ handleOffline
    \/ \E k \in LocalKeyPairs, n \in DisplayNames : createIdentity(k, n)
    \/ \E n \in DisplayNames : addContact(1, n)
    \/ \E c \in ContactIds : selectContact(c)
    \/ \E i \in 1..Len(loads) : selectContactRead(i)
    \/ \E i \in 1..Len(loads) : selectContactSet(i)
    \/ \E t \in Contents, id \in 1..MaxUuid : sendMessage(t, id)
    \/ \E i \in 1..Len(sends) : sendMessageSave(i)
    \/ \E i \in 1..Len(sends) : sendMessageSetMessages(i)
    \/ \E i \in 1..Len(sends) : sendMessageQueue(i)
    \/ \E i \in 1..Len(sends) : sendMessageSetQueued(i)
    \/ \E d \in 1..Len(drains) : processQueueRelayed(d)
    \/ \E d \in 1..Len(drains) : processQueueFailed(d)
    \/ processQueue

DrainSpec == Init /\ [][DrainNext]_vars

\* C34: processQueue submits nothing when the device is not online or there is
\* no identity. A call of processQueue made while isOnline is false or the
\* identity is missing returns at once: it starts no loop, makes no call of
\* sendViaRelay (nothing is posted, the relay stores nothing) and leaves
\* processingRef as it was.
C34_NoDrainOfflineOrWithoutIdentity ==
    [][(processQueue /\ (~state.isOnline \/ state.identity = Null))
          => UNCHANGED <<processingRef, drains, request, response, pending_messages>>]_vars

\* processQueue has been called offline with an identity and a message in the
\* queue: no loop runs, the guard is free and the relay holds nothing
C34_Witness ==
    /\ processQueueCall = [called |-> TRUE, isOnline |-> FALSE, identity |-> TRUE]
    /\ ~state.isOnline
    /\ Len(state.queuedMessages) > 0
    /\ drains = <<>>
    /\ ~processingRef
    /\ pending_messages = <<>>

\* ------------------------------------------------------------------- C35
InFlightIds == {sends[i].message.id : i \in 1..Len(sends)}

\* C35: within one sendMessage call the recorded status and the queue decision
\* agree, also when an online or offline event arrives while the call is
\* suspended. A message that is in the queue store is recorded as pending with
\* deliveryMethod store-forward; a message recorded as sent with deliveryMethod
\* direct is not in the queue store; and once its call has ended, a message is
\* in the queue store exactly when it is recorded as pending and store-forward,
\* and recorded as sent and direct exactly when it is not in the queue store.
C35_StatusAgreesWithQueueDecision ==
    \A m \in Outgoing :
        LET queued == m.id \in Ids(db.messageQueue)
            pending == m.status = "pending" /\ m.deliveryMethod = "store-forward"
            sent == m.status = "sent" /\ m.deliveryMethod = "direct"
        IN  /\ queued => pending
            /\ sent => ~queued
            /\ m.id \notin InFlightIds => (queued <=> pending) /\ (sent <=> ~queued)

\* a call that began offline has put its message into the queue store after
\* the device came online, and a call that has ended has recorded another
\* message as sent
C35_Witness ==
    /\ \E i \in 1..Len(sends) :
          /\ sends[i].pc = "setQueued" /\ ~sends[i].isOnline /\ state.isOnline
          /\ sends[i].message.id \in Ids(db.messageQueue)
    /\ \E m \in Outgoing : m.status = "sent" /\ m.id \notin InFlightIds

\* ------------------------------------------------------------------- C36
\* the ids in the in-memory list of a contact, in order
ListedIds(contactId) ==
    LET list == MessagesOf(state.messages, contactId)
    IN  [i \in 1..Len(list) |-> list[i].id]

C37_NoDevicesWhileNotScanning ==
    ~state.isP2PScanning => state.nearbyDevices = {}

\* ------------------------------------------------------------------- C38
\* --------------------------------------------- contact exchange by QR code
\* JSON text is kept as the list of its members, in the order they were
\* written; any other text is not JSON
Str(s) == [kind |-> "string", text |-> s]

JSONStringify(members) == [kind |-> "json", members |-> members]

\* the value JSON.parse gives to data.<name>: that of the last member of that
\* name, undefined when there is none
MemberOf(members, name) ==
    IF \E i \in 1..Len(members) : members[i][1] = name
    THEN members[CHOOSE i \in 1..Len(members) :
                    /\ members[i][1] = name
                    /\ \A j \in (i + 1)..Len(members) : members[j][1] # name][2]
    ELSE Null

JSONParse(text) ==
    [name \in {"t", "id", "pk", "sk", "n"} |-> MemberOf(text.members, name)]

\* the identity createIdentity makes of key pair k
PeerIdentity(k, displayName) ==
    [id |-> generateIdentityId(exportPublicKey(k, "ECDH")),
     publicKey |-> exportPublicKey(k, "ECDH"),
     signingPublicKey |-> exportPublicKey(k, "ECDSA"),
     displayName |-> displayName]

\* a QR payload that carries the signing key as pk and the encryption key as sk
QRCodeDisplay_KeysSwapped(identity) ==
    JSONStringify(<< <<"t", Str("mesh")>>, <<"id", identity.id>>,
                     <<"pk", identity.signingPublicKey>>, <<"sk", identity.publicKey>>,
                     <<"n", identity.displayName>> >>)

\* QRCodeDisplay: qrData, the value of the QR code shown for the identity
QRCodeDisplay(identity) ==
    JSONStringify(<< <<"t", Str("mesh")>>, <<"id", identity.id>>,
                     <<"pk", identity.publicKey>>, <<"sk", identity.signingPublicKey>>,
                     <<"n", identity.displayName>> >>)

ExchangeNames == {"Bob", "Eve"}

Peers == {PeerIdentity(k, n) : k \in KeyPairs, n \in ExchangeNames}

\* what the camera may decode: the QR codes of peers, a JSON code of another
\* kind, a mesh code without pk, and a code that is not JSON
ForeignTexts ==
    {JSONStringify(<< <<"t", Str("wifi")>>, <<"pk", exportPublicKey(1, "ECDH")>>,
                      <<"sk", exportPublicKey(1, "ECDSA")>>, <<"n", "Bob">> >>),
     JSONStringify(<< <<"pk", exportPublicKey(2, "ECDH")>>,
                      <<"sk", exportPublicKey(2, "ECDSA")>>, <<"n", "Eve">> >>),
     JSONStringify(<< <<"t", Str("mesh")>>, <<"n", "Bob">> >>),
     [kind |-> "text", chars |-> "hello"]}

ScannedTexts == {QRCodeDisplay(I) : I \in Peers} \cup ForeignTexts

\* the effect of QRCodeScanner when it opens: startScanning (cameraOk: the
\* camera starts)
startScanning(cameraOk) ==
    /\ state.identity # Null
    /\ ~scanner.isScanning
    /\ scanner' = IF cameraOk THEN [isScanning |-> TRUE, error |-> Null]
                  ELSE [isScanning |-> FALSE,
                        error |-> Str("Could not access camera. Please grant camera permissions.")]
    /\ UNCHANGED <<state, encryptionKeyPair, signingKeyPair, db, processingRef, drains,
                   drainsSinceOnline, sends, loads, scanTimers, pending_messages, now, request,
                   response, sendMessageResult, channel, crypto, enqueued, processQueueCall>>

\* handleClose: stopScanning of the current render, then onClose
handleClose ==
    /\ scanner.isScanning
    /\ scanner' = [scanner EXCEPT !.isScanning = FALSE]
    /\ UNCHANGED <<state, encryptionKeyPair, signingKeyPair, db, processingRef, drains,
                   drainsSinceOnline, sends, loads, scanTimers, pending_messages, now, request,
                   response, sendMessageResult, channel, crypto, enqueued, processQueueCall>>

ScanFails(error) ==
    /\ scanner' = [scanner EXCEPT !.error = error]
    /\ UNCHANGED <<state, encryptionKeyPair, signingKeyPair, db, processingRef, drains,
                   drainsSinceOnline, sends, loads, scanTimers, pending_messages, now, request,
                   response, sendMessageResult, channel, crypto, enqueued, processQueueCall>>

\* onScanSuccess, the callback given to scanner.start: JSON.parse, the test of
\* the type tag, stopScanning (of the render that started the scanner, in
\* which isScanning is false: it stops nothing), addContact.  A text that is
\* not JSON makes JSON.parse throw, a missing pk makes generateIdentityId
\* throw: both end in the catch.
onScanSuccess(decodedText) ==
    /\ scanner.isScanning
    /\ IF decodedText.kind # "json" THEN ScanFails(Str("Invalid QR code format"))
       ELSE LET data == JSONParse(decodedText)
            IN  IF data.t # Str("mesh")
                THEN ScanFails(Str("Invalid QR code - not a MeshChat contact"))
                ELSE IF data.pk = Null THEN ScanFails(Str("Invalid QR code format"))
                ELSE addContactCalled(data.pk, data.sk, data.n)

ExchangeNext ==
    \/ \E k \in LocalKeyPairs, n \in DisplayNames : createIdentity(k, n)
    \/ \E cameraOk \in BOOLEAN : startScanning(cameraOk)
    \/ \E text \in ScannedTexts : onScanSuccess(text)
    \/ handleClose

ExchangeSpec == Init /\ [][ExchangeNext]_vars

HasMeshTag(text) == text.kind = "json" /\ JSONParse(text).t = Str("mesh")

\* C38: contact exchange round trip. Scanning the QR payload made for an
\* identity I adds one contact, stored and listed, whose encryption and signing
\* public keys are those of I and whose id is I.id; scanning a payload whose
\* type tag is not 'mesh' adds no contact.
C38_QrRoundTrip ==
    [][/\ \A I \in Peers :
             onScanSuccess(QRCodeDisplay(I)) =>
                 /\ Len(state'.contacts) = Len(state.contacts) + 1
                 /\ LET contact == state'.contacts[Len(state'.contacts)]
                    IN  /\ contact.publicKey = I.publicKey
                        /\ contact.signingPublicKey = I.signingPublicKey
                        /\ contact.id = I.id
                        /\ contact \in db'.contacts
       /\ \A text \in ScannedTexts :
             (onScanSuccess(text) /\ ~HasMeshTag(text)) =>
                 state'.contacts = state.contacts /\ db' = db]_vars

\* the QR code of a peer has been scanned into a contact with that peer's id
\* and keys, and a code with another tag has been refused
C38_Witness ==
    /\ \E I \in Peers, i \in 1..Len(state.contacts) :
          /\ state.contacts[i].id = I.id
          /\ state.contacts[i].publicKey = I.publicKey
          /\ state.contacts[i].signingPublicKey = I.signingPublicKey
          /\ state.contacts[i].displayName = "Eve"
    /\ scanner.error = Str("Invalid QR code - not a MeshChat contact")

====
